---- MODULE Spec2Model ----
(***************************************************************************)
(* A model of the BansheeRun core: the ghost ("banshee") pacing session,   *)
(* the sliding-window personal-best finder and the personal-best registry. *)
(*                                                                         *)
(* Arithmetic.  The Rust code computes in f64.  The model computes the     *)
(* same expressions exactly: a distance is an integer number of distance   *)
(* units, a quotient is kept as a fraction [num, den] and compared by      *)
(* cross multiplication, and `x as u64` is truncation toward zero that     *)
(* saturates at 0.  Floating point rounding error is not modelled.         *)
(*                                                                         *)
(* Geometry.  Every point lies on one meridian (lon is the same for all    *)
(* points), where Point::distance_to reduces to R * |lat1 - lat2|; lat is   *)
(* measured in arcs of one distance unit.                                   *)
(***************************************************************************)
EXTENDS Integers, Sequences, FiniteSets, TLC

VARIABLES
    session,    \* the BansheeSession under query: best_run_coords and the cached total
    query,      \* the last session query: operation, arguments and returned value
    seg,        \* the last find_best_segment_time call: arguments and returned value
    pbs,        \* the PersonalBests registry held by the caller (records, in Vec order)
    last,       \* the last registry operation: arguments and returned values
    arbitrary,  \* TRUE once update was handed a distance outside the standard tables
    ffi,        \* the process-wide SESSION static, its mutex and the threads calling the FFI
    geo         \* the last call of a geo function: arguments and returned value

vars == <<session, query, seg, pbs, last, arbitrary, ffi, geo>>

(***************************************************************************)
(* Bounds of the model                                                     *)
(***************************************************************************)
MaxLen == 3                  \* longest ghost track / segment-search track

Lats == 0 .. 2               \* latitudes of track points and of the runner
Timestamps == 0 .. 2         \* timestamp_ms of track points
Elapsed == 0 .. 3            \* elapsed_ms of a query (3 lies beyond every track)

Abs(x) == IF x < 0 THEN -x ELSE x

\* x as u64 for the f64 value num/den (den > 0): truncation, saturating at 0
AsU64(num, den) == IF num <= 0 THEN 0 ELSE num \div den

\* a as i64 - b as i64
AsI64Diff(a, b) == a - b

\* u64::saturating_sub
SaturatingSub(a, b) == IF a >= b THEN a - b ELSE 0

(***************************************************************************)
(* point.rs                                                                *)
(***************************************************************************)
Point(lat, ts) == [lat |-> lat, timestamp_ms |-> ts]

Points == {Point(la, ts) : la \in Lats, ts \in Timestamps}

\* Point::distance_to on a meridian
distance_to(p, q) == Abs(q.lat - p.lat)

\* all sequences over S of length 0 .. n
SeqUpTo(S, n) == UNION {[1 .. k -> S] : k \in 0 .. n}

Tracks == SeqUpTo(Points, MaxLen)

NonDecreasing(points) ==
    \A i \in 1 .. Len(points) - 1 : points[i].timestamp_ms <= points[i + 1].timestamp_ms

(***************************************************************************)
(* banshee_session.rs                                                      *)
(***************************************************************************)
F64_MAX == 2147483647

RECURSIVE SumWindows(_, _)
\* points.windows(2).map(|w| w[0].distance_to(&w[1])).sum(), over windows 1 .. n
SumWindows(points, n) ==
    IF n = 0 THEN 0
    ELSE SumWindows(points, n - 1) + distance_to(points[n], points[n + 1])

calculate_total_distance(points) ==
    IF Len(points) < 2 THEN 0 ELSE SumWindows(points, Len(points) - 1)

\* BansheeSession::new
BansheeSessionNew(best_run_coords) ==
    [best_run_coords |-> best_run_coords,
     best_run_total_distance |-> calculate_total_distance(best_run_coords)]

best_run_duration_ms(s) ==
    IF s.best_run_coords = <<>> THEN 0
    ELSE s.best_run_coords[Len(s.best_run_coords)].timestamp_ms

Whole(n) == [num |-> n, den |-> 1]

RECURSIVE DistanceAtTimeLoop(_, _, _, _)
\* the for loop of get_banshee_distance_at_time; i is the 1-based index of
\* best_run_coords[i - 1] in the code, cumulative_distance the loop variable
DistanceAtTimeLoop(s, elapsed_ms, i, cumulative_distance) ==
    LET coords == s.best_run_coords IN
    IF i > Len(coords) THEN Whole(s.best_run_total_distance)
    ELSE IF coords[i].timestamp_ms >= elapsed_ms
    THEN IF i = 1 THEN Whole(0)
         ELSE LET prev == coords[i - 1]
                  curr == coords[i]
                  segment_distance == distance_to(prev, curr)
              IN  IF curr.timestamp_ms > prev.timestamp_ms
                  THEN \* cumulative + segment * (elapsed - prev.t) / (curr.t - prev.t)
                       [num |-> cumulative_distance * (curr.timestamp_ms - prev.timestamp_ms)
                                  + segment_distance * (elapsed_ms - prev.timestamp_ms),
                        den |-> curr.timestamp_ms - prev.timestamp_ms]
                  ELSE Whole(cumulative_distance)
    ELSE DistanceAtTimeLoop(s, elapsed_ms, i + 1,
             IF i > 1 THEN cumulative_distance + distance_to(coords[i - 1], coords[i])
             ELSE cumulative_distance)

get_banshee_distance_at_time(s, elapsed_ms) ==
    IF s.best_run_coords = <<>> THEN Whole(0)
    ELSE DistanceAtTimeLoop(s, elapsed_ms, 1, 0)

RECURSIVE TimeAtDistanceLoop(_, _, _, _)
\* the for loop of get_banshee_time_at_distance, i from 2 (code: 1)
TimeAtDistanceLoop(s, distance, i, cumulative_distance) ==
    LET coords == s.best_run_coords IN
    IF i > Len(coords) THEN best_run_duration_ms(s)
    ELSE LET prev == coords[i - 1]
             curr == coords[i]
             segment_distance == distance_to(prev, curr)
             new_cumulative == cumulative_distance + segment_distance
         IN  IF new_cumulative >= distance
             THEN LET time_diff == SaturatingSub(curr.timestamp_ms, prev.timestamp_ms)
                  IN  IF segment_distance > 0
                      THEN prev.timestamp_ms
                             + AsU64(time_diff * (distance - cumulative_distance),
                                     segment_distance)
                      ELSE prev.timestamp_ms
             ELSE TimeAtDistanceLoop(s, distance, i + 1, new_cumulative)

get_banshee_time_at_distance(s, distance) ==
    IF s.best_run_coords = <<>> THEN 0
    ELSE TimeAtDistanceLoop(s, distance, 2, 0)

RECURSIVE DistanceFromStartLoop(_, _, _, _, _, _)
\* the for loop of calculate_distance_from_start: the comparison at index i
\* reads cumulative_distance before the code adds the segment ending at i
DistanceFromStartLoop(s, current_pos, i, best_distance_along_path, min_perpendicular_distance, cumulative_distance) ==
    LET coords == s.best_run_coords IN
    IF i > Len(coords) THEN best_distance_along_path
    ELSE LET point == coords[i]
             distance_to_point == distance_to(current_pos, point)
             closer == distance_to_point < min_perpendicular_distance
         IN  DistanceFromStartLoop(s, current_pos, i + 1,
                 IF closer THEN cumulative_distance ELSE best_distance_along_path,
                 IF closer THEN distance_to_point ELSE min_perpendicular_distance,
                 IF i > 1 THEN cumulative_distance + distance_to(coords[i - 1], point)
                 ELSE cumulative_distance)

calculate_distance_from_start(s, current_pos) ==
    IF s.best_run_coords = <<>> THEN 0
    ELSE DistanceFromStartLoop(s, current_pos, 1, 0, F64_MAX, 0)

\* a > b for a fraction a and a whole number b
Greater(a, b) == a.num > b * a.den

get_pacing_status_short(s, current_pos, elapsed_ms) ==
    IF Len(s.best_run_coords) < 2 THEN "Unknown"
    ELSE IF Greater(get_banshee_distance_at_time(s, elapsed_ms),
                    calculate_distance_from_start(s, current_pos))
    THEN "Behind" ELSE "Ahead"

get_pacing_status_on_tie(s, current_pos, elapsed_ms) ==
    IF s.best_run_coords = <<>> THEN "Unknown"
    ELSE LET banshee_distance == get_banshee_distance_at_time(s, elapsed_ms)
             current_distance == calculate_distance_from_start(s, current_pos)
         IN  IF banshee_distance.num >= current_distance * banshee_distance.den
             THEN "Behind" ELSE "Ahead"

get_pacing_status(s, current_pos, elapsed_ms) ==
    IF s.best_run_coords = <<>> THEN "Unknown"
    ELSE LET banshee_distance == get_banshee_distance_at_time(s, elapsed_ms)
             current_distance == calculate_distance_from_start(s, current_pos)
         IN  IF Greater(banshee_distance, current_distance) THEN "Behind" ELSE "Ahead"

is_behind(s, current_pos, elapsed_ms) ==
    get_pacing_status(s, current_pos, elapsed_ms) = "Behind"

get_time_difference_ms_swapped(s, current_pos, elapsed_ms) ==
    IF s.best_run_coords = <<>> THEN 0
    ELSE LET current_distance == calculate_distance_from_start(s, current_pos)
             banshee_time_at_distance == get_banshee_time_at_distance(s, current_distance)
         IN  AsI64Diff(banshee_time_at_distance, elapsed_ms)

get_time_difference_ms(s, current_pos, elapsed_ms) ==
    IF s.best_run_coords = <<>> THEN 0
    ELSE LET current_distance == calculate_distance_from_start(s, current_pos)
             banshee_time_at_distance == get_banshee_time_at_distance(s, current_distance)
         IN  AsI64Diff(elapsed_ms, banshee_time_at_distance)

(***************************************************************************)
(* pb_calculator.rs: the sliding-window segment finder.  Indices in the    *)
(* returned SegmentTime are the code's 0-based indices; sequences of the   *)
(* model are 1-based, so points[k] of the code is points[k + 1] here.      *)
(***************************************************************************)
MaxTarget == 3               \* largest target distance handed to the segment finder

RECURSIVE BuildCumulativeLoop(_, _, _)
\* the for loop of build_cumulative_distances, i the code's index
BuildCumulativeLoop(points, cumulative, i) ==
    IF i >= Len(points) THEN cumulative
    ELSE BuildCumulativeLoop(points,
             Append(cumulative, cumulative[i] + distance_to(points[i], points[i + 1])),
             i + 1)

\* starts from vec![0.0], also for an empty track
build_cumulative_distances(points) == BuildCumulativeLoop(points, <<0>>, 1)

None == [found |-> FALSE]

Some(v) == [found |-> TRUE, value |-> v]

RECURSIVE InterpolateLoopToPoint(_, _, _, _)
\* as InterpolateLoop, taking the timestamp of the point that reaches the target
InterpolateLoopToPoint(points, cumulative, i, target_cumulative) ==
    IF i >= Len(points) THEN None
    ELSE IF /\ cumulative[i + 1] >= target_cumulative
            /\ cumulative[i + 1] - cumulative[i] > 0
    THEN Some(points[i + 1].timestamp_ms)
    ELSE InterpolateLoopToPoint(points, cumulative, i + 1, target_cumulative)

RECURSIVE InterpolateLoop(_, _, _, _)
\* the for loop of interpolate_time_at_distance, i the code's index
InterpolateLoop(points, cumulative, i, target_cumulative) ==
    IF i >= Len(points) THEN None
    ELSE IF /\ cumulative[i + 1] >= target_cumulative
            /\ cumulative[i + 1] - cumulative[i] > 0
    THEN LET prev == points[i]
             curr == points[i + 1]
             segment_dist == cumulative[i + 1] - cumulative[i]
         IN  Some(prev.timestamp_ms
                    + AsU64((curr.timestamp_ms - prev.timestamp_ms)
                              * (target_cumulative - cumulative[i]),
                            segment_dist))
    ELSE InterpolateLoop(points, cumulative, i + 1, target_cumulative)

interpolate_time_at_distance(points, cumulative, start_idx, target_cumulative) ==
    InterpolateLoop(points, cumulative, start_idx + 1, target_cumulative)

RECURSIVE AdvanceEndInclusive(_, _, _, _, _)
AdvanceEndInclusive(points, cumulative, start_idx, end_idx, target_distance_m) ==
    IF /\ end_idx < Len(points)
       /\ cumulative[end_idx + 1] - cumulative[start_idx + 1] <= target_distance_m
    THEN AdvanceEndInclusive(points, cumulative, start_idx, end_idx + 1, target_distance_m)
    ELSE end_idx

RECURSIVE AdvanceEnd(_, _, _, _, _)
\* the while loop that moves end_idx until the window covers the target
AdvanceEnd(points, cumulative, start_idx, end_idx, target_distance_m) ==
    IF /\ end_idx < Len(points)
       /\ cumulative[end_idx + 1] - cumulative[start_idx + 1] < target_distance_m
    THEN AdvanceEnd(points, cumulative, start_idx, end_idx + 1, target_distance_m)
    ELSE end_idx

RECURSIVE SegmentSearchLoopLast(_, _, _, _, _, _)
\* as SegmentSearchLoop, keeping the window found last instead of the fastest
SegmentSearchLoopLast(points, cumulative, target_distance_m, start_idx, end_idx0, best_segment) ==
    IF start_idx >= Len(points) THEN best_segment
    ELSE LET end_idx == AdvanceEnd(points, cumulative, start_idx, end_idx0,
                                   target_distance_m)
         IN  IF end_idx >= Len(points) THEN best_segment
             ELSE LET segment_time ==
                          interpolate_time_at_distance(points, cumulative, start_idx,
                              cumulative[start_idx + 1] + target_distance_m)
                      elapsed ==
                          SaturatingSub(segment_time.value,
                                        points[start_idx + 1].timestamp_ms)
                  IN  SegmentSearchLoopLast(points, cumulative, target_distance_m,
                          start_idx + 1, end_idx,
                          IF segment_time.found
                          THEN Some([distance_meters |-> target_distance_m,
                                     time_ms |-> elapsed,
                                     start_idx |-> start_idx,
                                     end_idx |-> end_idx])
                          ELSE best_segment)

RECURSIVE SegmentSearchLoop(_, _, _, _, _, _)
\* the for loop over start_idx of find_best_segment_time
SegmentSearchLoop(points, cumulative, target_distance_m, start_idx, end_idx0, best_segment) ==
    IF start_idx >= Len(points) THEN best_segment
    ELSE LET end_idx == AdvanceEnd(points, cumulative, start_idx, end_idx0,
                                   target_distance_m)
         IN  IF end_idx >= Len(points) THEN best_segment
             ELSE LET segment_time ==
                          interpolate_time_at_distance(points, cumulative, start_idx,
                              cumulative[start_idx + 1] + target_distance_m)
                      elapsed ==
                          SaturatingSub(segment_time.value,
                                        points[start_idx + 1].timestamp_ms)
                      is_better ==
                          IF best_segment.found
                          THEN elapsed < best_segment.value.time_ms
                          ELSE TRUE
                  IN  SegmentSearchLoop(points, cumulative, target_distance_m,
                          start_idx + 1, end_idx,
                          IF segment_time.found /\ is_better
                          THEN Some([distance_meters |-> target_distance_m,
                                     time_ms |-> elapsed,
                                     start_idx |-> start_idx,
                                     end_idx |-> end_idx])
                          ELSE best_segment)

find_best_segment_time(points, cumulative, target_distance_m) ==
    IF Len(points) < 2 THEN None
    ELSE IF cumulative[Len(cumulative)] < target_distance_m THEN None
    ELSE SegmentSearchLoop(points, cumulative, target_distance_m, 0, 0, None)

(***************************************************************************)
(* activity.rs and personal_best.rs.  Distances of the registry are the    *)
(* code's f64 metres counted in units of 1/UnitsPerMeter metre, so that    *)
(* 21_097.5 and distances less than a metre apart are whole numbers.       *)
(* PersonalBest::pace_min_per_km is a function of time_ms and              *)
(* distance_meters and is not carried in the record.                       *)
(***************************************************************************)
UnitsPerMeter == 4

Meters(m) == m * UnitsPerMeter

ActivityTypes == {"Run", "Walk", "Cycle", "RollerSkate"}

\* ActivityType::pb_distances
pb_distances(activity_type) ==
    IF activity_type = "Cycle"
    THEN <<Meters(10000), Meters(25000), Meters(50000), Meters(100000)>>
    ELSE <<Meters(1000), Meters(5000), Meters(10000),
           Meters(210975) \div 10, Meters(42195)>>

\* Activity::new
ActivityNew(id, activity_type, coordinates, recorded_at) ==
    [id |-> id,
     activity_type |-> activity_type,
     coordinates |-> coordinates,
     total_distance_meters |-> calculate_total_distance(coordinates),
     recorded_at |-> recorded_at]

\* PersonalBest::new
PersonalBestNew(activity_type, distance_meters, time_ms, activity_id, achieved_at) ==
    [activity_type |-> activity_type,
     distance_meters |-> distance_meters,
     time_ms |-> time_ms,
     activity_id |-> activity_id,
     achieved_at |-> achieved_at]

\* the closure shared by get and update:
\* same activity type and (a - b).abs() < 1.0
SameKey(existing, activity_type, distance_meters) ==
    /\ existing.activity_type = activity_type
    /\ Abs(existing.distance_meters - distance_meters) < Meters(1)

RECURSIVE Find(_, _, _, _)
\* PersonalBests::get: records.iter().find(..), from index i on
Find(records, activity_type, distance_meters, i) ==
    IF i > Len(records) THEN None
    ELSE IF SameKey(records[i], activity_type, distance_meters) THEN Some(records[i])
    ELSE Find(records, activity_type, distance_meters, i + 1)

Get(records, activity_type, distance_meters) ==
    Find(records, activity_type, distance_meters, 1)

RECURSIVE PositionFrom(_, _, _)
\* records.iter().position(..) of PersonalBests::update, from index i on
PositionFrom(records, pb, i) ==
    IF i > Len(records) THEN None
    ELSE IF SameKey(records[i], pb.activity_type, pb.distance_meters) THEN Some(i)
    ELSE PositionFrom(records, pb, i + 1)

UpdateOnTie(records, pb) ==
    LET existing_idx == PositionFrom(records, pb, 1) IN
    IF existing_idx.found
    THEN IF pb.time_ms <= records[existing_idx.value].time_ms
         THEN [records |-> [records EXCEPT ![existing_idx.value] = pb], ret |-> TRUE]
         ELSE [records |-> records, ret |-> FALSE]
    ELSE [records |-> Append(records, pb), ret |-> TRUE]

UpdateOverwrite(records, pb) ==
    LET existing_idx == PositionFrom(records, pb, 1) IN
    IF existing_idx.found
    THEN [records |-> [records EXCEPT ![existing_idx.value] = pb],
          ret |-> pb.time_ms < records[existing_idx.value].time_ms]
    ELSE [records |-> Append(records, pb), ret |-> TRUE]

UpdatePush(records, pb) ==
    LET existing_idx == PositionFrom(records, pb, 1) IN
    IF existing_idx.found
    THEN IF pb.time_ms < records[existing_idx.value].time_ms
         THEN [records |-> Append(records, pb), ret |-> TRUE]
         ELSE [records |-> records, ret |-> FALSE]
    ELSE [records |-> Append(records, pb), ret |-> TRUE]

\* PersonalBests::update: the records afterwards and the returned flag
Update(records, pb) ==
    LET existing_idx == PositionFrom(records, pb, 1) IN
    IF existing_idx.found
    THEN IF pb.time_ms < records[existing_idx.value].time_ms
         THEN [records |-> [records EXCEPT ![existing_idx.value] = pb], ret |-> TRUE]
         ELSE [records |-> records, ret |-> FALSE]
    ELSE [records |-> Append(records, pb), ret |-> TRUE]

(***************************************************************************)
(* pb_calculator.rs: segment times of an activity and the registry update  *)
(***************************************************************************)
RECURSIVE SegmentTimesLoopUnchecked(_, _, _, _)
\* as SegmentTimesLoop, without the comparison with the activity's total distance
SegmentTimesLoopUnchecked(activity, cumulative, k, results) ==
    LET target_distances == pb_distances(activity.activity_type) IN
    IF k > Len(target_distances) THEN results
    ELSE LET segment == find_best_segment_time(activity.coordinates, cumulative, target_distances[k])
         IN  SegmentTimesLoopUnchecked(activity, cumulative, k + 1,
                 IF segment.found THEN Append(results, segment.value) ELSE results)

RECURSIVE SegmentTimesLoop(_, _, _, _)
\* the for loop of calculate_segment_times over target_distances[k ..]
SegmentTimesLoop(activity, cumulative, k, results) ==
    LET target_distances == pb_distances(activity.activity_type) IN
    IF k > Len(target_distances) THEN results
    ELSE LET target_distance == target_distances[k]
             segment == find_best_segment_time(activity.coordinates, cumulative,
                                               target_distance)
         IN  SegmentTimesLoop(activity, cumulative, k + 1,
                 IF activity.total_distance_meters >= target_distance /\ segment.found
                 THEN Append(results, segment.value)
                 ELSE results)

calculate_segment_times(activity) ==
    SegmentTimesLoop(activity, build_cumulative_distances(activity.coordinates), 1, <<>>)

RECURSIVE UpdatePbsLoopOnTie(_, _, _, _, _)
UpdatePbsLoopOnTie(activity, segment_times, k, new_pbs, achieved_pbs) ==
    IF k > Len(segment_times)
    THEN [new_pbs |-> new_pbs, achieved_pbs |-> achieved_pbs]
    ELSE LET segment == segment_times[k]
             existing == Get(new_pbs, activity.activity_type, segment.distance_meters)
             is_new_pb == IF existing.found
                          THEN segment.time_ms <= existing.value.time_ms
                          ELSE TRUE
             new_pb == PersonalBestNew(activity.activity_type, segment.distance_meters,
                                       segment.time_ms, activity.id, activity.recorded_at)
         IN  IF is_new_pb
             THEN UpdatePbsLoopOnTie(activity, segment_times, k + 1,
                      Update(new_pbs, new_pb).records, Append(achieved_pbs, new_pb))
             ELSE UpdatePbsLoopOnTie(activity, segment_times, k + 1, new_pbs, achieved_pbs)

RECURSIVE UpdatePbsLoop(_, _, _, _, _)
\* the for loop of update_pbs over segment_times[k ..]
UpdatePbsLoop(activity, segment_times, k, new_pbs, achieved_pbs) ==
    IF k > Len(segment_times)
    THEN [new_pbs |-> new_pbs, achieved_pbs |-> achieved_pbs]
    ELSE LET segment == segment_times[k]
             existing == Get(new_pbs, activity.activity_type, segment.distance_meters)
             is_new_pb == IF existing.found
                          THEN segment.time_ms < existing.value.time_ms
                          ELSE TRUE
             new_pb == PersonalBestNew(activity.activity_type, segment.distance_meters,
                                       segment.time_ms, activity.id, activity.recorded_at)
         IN  IF is_new_pb
             THEN UpdatePbsLoop(activity, segment_times, k + 1,
                      Update(new_pbs, new_pb).records, Append(achieved_pbs, new_pb))
             ELSE UpdatePbsLoop(activity, segment_times, k + 1, new_pbs, achieved_pbs)

\* update_pbs: new_pbs starts as a clone of existing_pbs
update_pbs(existing_pbs, activity) ==
    UpdatePbsLoop(activity, calculate_segment_times(activity), 1, existing_pbs, <<>>)

(***************************************************************************)
(* The session.  A session is immutable once constructed                   *)
(* (BansheeSession::new) and every query is a function of the session and  *)
(* its arguments: Init ranges over the sessions of every ghost track, and  *)
(* each action applies one query to it.                                    *)
(***************************************************************************)
NoFfi == [op |-> "none"]

NoGeo == [op |-> "none"]

NoQuery == [op |-> "none"]

NoSeg == [op |-> "none"]

NoLast == [op |-> "none"]

Init ==
    /\ session \in {BansheeSessionNew(coords) : coords \in Tracks}
    /\ query = NoQuery
    /\ seg = NoSeg
    /\ pbs = <<>>
    /\ last = NoLast
    /\ arbitrary = FALSE
    /\ ffi = NoFfi
    /\ geo = NoGeo

GetPacingStatus ==
    \E la \in Lats, elapsed_ms \in Elapsed :
        /\ query.op = "none"
        /\ query' = [op |-> "get_pacing_status", lat |-> la, elapsed_ms |-> elapsed_ms,
                     ret |-> get_pacing_status(session, Point(la, elapsed_ms), elapsed_ms)]
        /\ UNCHANGED <<session, seg, pbs, last, arbitrary, ffi, geo>>

IsBehind ==
    \E la \in Lats, elapsed_ms \in Elapsed :
        /\ query.op = "none"
        /\ query' = [op |-> "is_behind", lat |-> la, elapsed_ms |-> elapsed_ms,
                     ret |-> is_behind(session, Point(la, elapsed_ms), elapsed_ms)]
        /\ UNCHANGED <<session, seg, pbs, last, arbitrary, ffi, geo>>

GetTimeDifferenceMs ==
    \E la \in Lats, elapsed_ms \in Elapsed :
        /\ query.op = "none"
        /\ query' = [op |-> "get_time_difference_ms", lat |-> la, elapsed_ms |-> elapsed_ms,
                     ret |-> get_time_difference_ms(session, Point(la, elapsed_ms),
                                                    elapsed_ms)]
        /\ UNCHANGED <<session, seg, pbs, last, arbitrary, ffi, geo>>

Next == GetPacingStatus \/ IsBehind \/ GetTimeDifferenceMs

Spec == Init /\ [][Next]_vars

(***************************************************************************)
(* The segment finder is a pure function: InitSegment draws its arguments  *)
(* and the action applies it.                                              *)
(***************************************************************************)
InitSegment ==
    /\ session = BansheeSessionNew(<<>>)
    /\ query = NoQuery
    /\ seg \in {[op |-> "args", points |-> points, target_distance_m |-> target]
                    : points \in Tracks, target \in 1 .. MaxTarget}
    /\ pbs = <<>>
    /\ last = NoLast
    /\ arbitrary = FALSE
    /\ ffi = NoFfi
    /\ geo = NoGeo

FindBestSegmentTime ==
    /\ seg.op = "args"
    /\ seg' = [op |-> "find_best_segment_time",
               points |-> seg.points,
               cumulative |-> build_cumulative_distances(seg.points),
               target_distance_m |-> seg.target_distance_m,
               ret |-> find_best_segment_time(seg.points,
                           build_cumulative_distances(seg.points),
                           seg.target_distance_m)]
    /\ UNCHANGED <<session, query, pbs, last, arbitrary, ffi, geo>>

NextSegment == FindBestSegmentTime

SpecSegment == InitSegment /\ [][NextSegment]_vars

(***************************************************************************)
(* The segment finder on tracks recorded at uniform speed: equally spaced  *)
(* points at equal time steps, as create_test_activity builds them.        *)
(***************************************************************************)
MaxUniformLen == 4           \* most points of a uniform track
MaxSpacing == 3              \* largest distance between neighbouring points
MaxStep == 3                 \* largest time between neighbouring points

\* the track of num_points points from start_lat at time start_ms
UniformTrack(num_points, start_lat, distance_per_point_m, start_ms, time_per_point_ms) ==
    [i \in 1 .. num_points |->
        Point(start_lat + (i - 1) * distance_per_point_m, start_ms + (i - 1) * time_per_point_ms)]

UniformTracks ==
    {UniformTrack(n, start_lat, s, start_ms, dt) :
        n \in 2 .. MaxUniformLen, start_lat \in {0, 1}, s \in 1 .. MaxSpacing,
        start_ms \in {0, 1}, dt \in 0 .. MaxStep}

InitUniform ==
    /\ session = BansheeSessionNew(<<>>)
    /\ query = NoQuery
    /\ seg \in {[op |-> "args", points |-> points, target_distance_m |-> target]
                    : points \in UniformTracks,
                      target \in 1 .. MaxSpacing * (MaxUniformLen - 1) + 1}
    /\ pbs = <<>>
    /\ last = NoLast
    /\ arbitrary = FALSE
    /\ ffi = NoFfi
    /\ geo = NoGeo

SpecUniform == InitUniform /\ [][NextSegment]_vars

(***************************************************************************)
(* Inputs of the registry operations                                       *)
(***************************************************************************)
MaxActLen == 2               \* longest activity track

ActLats == {0, Meters(1000), Meters(5000)}

ActTimes == 0 .. 1

ActPoints == {Point(la, ts) : la \in ActLats, ts \in ActTimes}

ModelTypes == {"Run", "Walk"}

ActivityIds == {"a1", "a2"}

\* activity tracks are recorded in chronological order
ActTracks == {coordinates \in SeqUpTo(ActPoints, MaxActLen) : NonDecreasing(coordinates)}

Activities ==
    {ActivityNew(id, activity_type, coordinates, 0) :
        id \in ActivityIds, activity_type \in ModelTypes, coordinates \in ActTracks}

\* the standard distances the activities above can cover
StandardDistances == {Meters(1000), Meters(5000)}

\* distances next to a standard one, less than a metre from their neighbour
NearDistances == {Meters(1000), Meters(1001) - 1, Meters(1001)}

IsStandard(pb) ==
    \E k \in 1 .. Len(pb_distances(pb.activity_type)) :
        pb_distances(pb.activity_type)[k] = pb.distance_meters

\* the personal bests handed to update
PersonalBests ==
    {PersonalBestNew(activity_type, distance_meters, time_ms, id, 0) :
        activity_type \in ModelTypes,
        distance_meters \in StandardDistances \cup NearDistances,
        time_ms \in ActTimes, id \in ActivityIds}

\* those made by activity a1, which is the one that filled the caller's registry
StoredPersonalBests ==
    {pb \in PersonalBests :
        pb.activity_id = "a1" /\ pb.distance_meters \in StandardDistances}

\* the registries that hold standard distances: one record per (type, distance),
\* in any order (every one of them is built from the empty registry by update)
Registries ==
    {records \in SeqUpTo(StoredPersonalBests,
                         Cardinality(ModelTypes) * Cardinality(StandardDistances)) :
        \A i, j \in 1 .. Len(records) :
            (/\ records[i].activity_type = records[j].activity_type
             /\ records[i].distance_meters = records[j].distance_meters) => i = j}

(***************************************************************************)
(* calculate_segment_times applied to an activity.  An activity is built   *)
(* by Activity::new, which computes total_distance_meters from the         *)
(* coordinates, or read by Activity::from_json, which takes the stored     *)
(* field as it is.                                                         *)
(***************************************************************************)
MaxSegTimesLen == 3          \* longest track of an activity handed to calculate_segment_times

SegTimesLats == {0, Meters(1000) - 1, Meters(1000), Meters(10000)}

SegTimesPoints == {Point(la, ts) : la \in SegTimesLats, ts \in ActTimes}

\* total_distance_meters as an activity file may store it
StoredTotals == {0, Meters(5000)}

\* Activity::from_json: every field as stored
ActivityFromJson(id, activity_type, coordinates, total_distance_meters, recorded_at) ==
    [id |-> id,
     activity_type |-> activity_type,
     coordinates |-> coordinates,
     total_distance_meters |-> total_distance_meters,
     recorded_at |-> recorded_at]

InitSegmentTimes ==
    /\ session = BansheeSessionNew(<<>>)
    /\ query = NoQuery
    /\ seg = NoSeg
    /\ pbs = <<>>
    /\ \E ty \in ActivityTypes, coordinates \in SeqUpTo(SegTimesPoints, MaxSegTimesLen) :
           \E activity \in {ActivityNew("a1", ty, coordinates, 0)}
                            \cup {ActivityFromJson("a1", ty, coordinates, total, 0) : total \in StoredTotals} :
               last = [op |-> "activity", activity |-> activity]
    /\ arbitrary = FALSE
    /\ ffi = NoFfi
    /\ geo = NoGeo

CalculateSegmentTimes ==
    /\ last.op = "activity"
    /\ last' = [op |-> "calculate_segment_times", activity |-> last.activity,
                ret |-> calculate_segment_times(last.activity)]
    /\ UNCHANGED <<session, query, seg, pbs, arbitrary, ffi, geo>>

NextSegmentTimes == CalculateSegmentTimes

SpecSegmentTimes == InitSegmentTimes /\ [][NextSegmentTimes]_vars


(***************************************************************************)
(* The registry operations as functions: InitPB draws the registry the     *)
(* caller holds, and one operation is applied to it.  The stored records   *)
(* come from activity a1 and the operation's from a2, so that a replaced   *)
(* record differs from the one it replaces.                                *)
(***************************************************************************)
InitPB ==
    /\ session = BansheeSessionNew(<<>>)
    /\ query = NoQuery
    /\ seg = NoSeg
    /\ pbs \in Registries
    /\ last = NoLast
    /\ arbitrary = FALSE
    /\ ffi = NoFfi
    /\ geo = NoGeo

PersonalBestsUpdate ==
    /\ last.op = "none"
    /\ \E pb \in PersonalBests :
           LET r == Update(pbs, pb) IN
           /\ pb.activity_id = "a2"
           /\ pb.distance_meters \in StandardDistances
           /\ pbs' = r.records
           /\ last' = [op |-> "update", existing |-> pbs, pb |-> pb, ret |-> r.ret]
    /\ UNCHANGED <<session, query, seg, arbitrary, ffi, geo>>

UpdatePbs ==
    /\ last.op = "none"
    /\ \E activity \in Activities :
           LET r == update_pbs(pbs, activity) IN
           /\ activity.id = "a2"
           /\ pbs' = r.new_pbs
           /\ last' = [op |-> "update_pbs", existing |-> pbs, activity |-> activity,
                       segment_times |-> calculate_segment_times(activity),
                       new_pbs |-> r.new_pbs, achieved_pbs |-> r.achieved_pbs]
    /\ UNCHANGED <<session, query, seg, arbitrary, ffi, geo>>

NextPB == PersonalBestsUpdate \/ UpdatePbs

SpecPB == InitPB /\ [][NextPB]_vars

(***************************************************************************)
(* The registry over time: it starts empty, and the caller applies update  *)
(* and update_pbs (keeping the registry update_pbs returns) in any order.  *)
(***************************************************************************)
\* some stored record has been replaced by a faster one
Improved(before, after) ==
    \E i \in 1 .. Len(before) : after[i].time_ms < before[i].time_ms

InitLifecycle ==
    /\ session = BansheeSessionNew(<<>>)
    /\ query = NoQuery
    /\ seg = NoSeg
    /\ pbs = <<>>
    /\ last = [op |-> "steps", improved |-> FALSE]
    /\ arbitrary = FALSE
    /\ ffi = NoFfi
    /\ geo = NoGeo

UpdateStep(distances) ==
    \E pb \in PersonalBests :
        LET r == Update(pbs, pb) IN
        /\ pb.activity_id = "a1"
        /\ pb.distance_meters \in distances
        /\ pbs' = r.records
        /\ last' = [last EXCEPT !.improved = @ \/ Improved(pbs, r.records)]
        /\ arbitrary' = (arbitrary \/ ~IsStandard(pb))
        /\ UNCHANGED <<session, query, seg, ffi, geo>>

UpdateStandard == UpdateStep(StandardDistances)

UpdatePbsStep ==
    \E activity \in Activities :
        LET r == update_pbs(pbs, activity) IN
        /\ activity.id = "a1"
        /\ pbs' = r.new_pbs
        /\ last' = [last EXCEPT !.improved = @ \/ Improved(pbs, r.new_pbs)]
        /\ UNCHANGED <<session, query, seg, arbitrary, ffi, geo>>

NextLifecycle == UpdateStandard \/ UpdatePbsStep

SpecLifecycle == InitLifecycle /\ [][NextLifecycle]_vars

(***************************************************************************)
(* The registry under update alone, with distances that are not all        *)
(* standard distances.                                                     *)
(***************************************************************************)
UpdateAny == UpdateStep(NearDistances)

NextAnyDistance == UpdateAny

SpecAnyDistance == InitLifecycle /\ [][NextAnyDistance]_vars

(***************************************************************************)
(* Reading aids for the session claims                                     *)
(***************************************************************************)
coords == session.best_run_coords

\* the runner's position and the elapsed time of the last query
QueryPos == Point(query.lat, query.elapsed_ms)

\* cumulative along-path distance from the track start to point i
CumAt(points, i) == IF i <= 1 THEN 0 ELSE SumWindows(points, i - 1)

\* the indices of the ghost-track points nearest (straight line) to pos
NearestIndices(points, pos) ==
    {i \in 1 .. Len(points) :
        \A j \in 1 .. Len(points) : distance_to(pos, points[i]) <= distance_to(pos, points[j])}

GhostDistance == get_banshee_distance_at_time(session, query.elapsed_ms)

RunnerDistance == calculate_distance_from_start(session, QueryPos)

StatusOfQuery == get_pacing_status(session, QueryPos, query.elapsed_ms)

\* C1: on a non-empty ghost track get_pacing_status returns Behind exactly when the
\* ghost's interpolated distance at elapsed_ms is greater than the cumulative
\* along-path distance to the ghost-track point nearest to current_pos (any one of
\* the nearest points when several tie), and Ahead in every other case.
C1_BehindIffGhostBeyondNearestPoint ==
    (query.op = "get_pacing_status" /\ coords # <<>>) =>
        /\ query.ret \in {"Behind", "Ahead"}
        /\ \E i \in NearestIndices(coords, QueryPos) :
               (query.ret = "Behind") <=> Greater(GhostDistance, CumAt(coords, i))

\* C8 as stated: with non-decreasing timestamps a positive time difference occurs
\* only when the status is Behind, a negative one only when the status is Ahead.
C8_SignMatchesStatus ==
    (query.op = "get_time_difference_ms" /\ coords # <<>> /\ NonDecreasing(coords)) =>
        /\ query.ret > 0 => StatusOfQuery = "Behind"
        /\ query.ret < 0 => StatusOfQuery = "Ahead"

\* C8 amended: with non-decreasing timestamps a negative time difference occurs only
\* when the status is Ahead, and a positive one only when the ghost's distance at
\* elapsed_ms is at least the runner's distance: the status is Behind, or the two
\* distances are equal (which get_pacing_status reports as Ahead).
C8_SignMatchesStatusUpToTies ==
    (query.op = "get_time_difference_ms" /\ coords # <<>> /\ NonDecreasing(coords)) =>
        /\ query.ret > 0 =>
               \/ StatusOfQuery = "Behind"
               \/ GhostDistance.num = RunnerDistance * GhostDistance.den
        /\ query.ret < 0 => StatusOfQuery = "Ahead"

\* a late runner level with a ghost that stands still or has finished: the time
\* difference is positive and the status is Ahead
C8_Witness ==
    /\ query.op = "get_time_difference_ms"
    /\ Len(coords) >= 2
    /\ NonDecreasing(coords)
    /\ query.ret > 0
    /\ StatusOfQuery = "Ahead"
    /\ GhostDistance.num = RunnerDistance * GhostDistance.den

\* C9: get_time_difference_ms is positive when the runner is ahead of the banshee
\* and negative when the runner is behind it: never positive for a runner whose
\* distance is behind the ghost's, never negative for a runner whose distance is
\* beyond the ghost's (a runner level with the ghost is left out).
C9_PositiveMeansAhead ==
    (query.op = "get_time_difference_ms" /\ coords # <<>> /\ NonDecreasing(coords)) =>
        /\ GhostDistance.num > RunnerDistance * GhostDistance.den => query.ret <= 0
        /\ GhostDistance.num < RunnerDistance * GhostDistance.den => query.ret >= 0

\* C10: get_pacing_status returns Unknown if and only if the reference track is
\* empty, and is_behind is false on an empty reference track.
C10_UnknownIffEmptyTrack ==
    /\ query.op = "get_pacing_status" => ((query.ret = "Unknown") <=> (coords = <<>>))
    /\ (query.op = "is_behind" /\ coords = <<>>) => query.ret = FALSE

\* Unknown has been returned for an empty track
C10_Witness ==
    /\ query.op = "get_pacing_status"
    /\ coords = <<>>
    /\ query.ret = "Unknown"

(***************************************************************************)
(* Reading aids for the segment-finder claims: the best segment stated     *)
(* over the set of all windows, with no reference to the two pointers.     *)
(***************************************************************************)
\* the first (code) index after start whose cumulative distance reaches goal
FirstReaching(cumulative, start, goal) ==
    CHOOSE i \in start + 1 .. Len(cumulative) - 1 :
        /\ cumulative[i + 1] >= goal
        /\ \A j \in start + 1 .. i - 1 : cumulative[j + 1] < goal

\* the start indices whose window reaches the target before the track ends
ReachingStarts(cumulative, target) ==
    {start \in 0 .. Len(cumulative) - 2 :
        cumulative[Len(cumulative)] - cumulative[start + 1] >= target}

\* time interpolated at cumulative[start] + target, minus timestamp[start]
WindowTime(points, cumulative, start, target) ==
    LET goal == cumulative[start + 1] + target
        i == FirstReaching(cumulative, start, goal)
        prev == points[i]
        curr == points[i + 1]
    IN  prev.timestamp_ms
          + ((curr.timestamp_ms - prev.timestamp_ms) * (goal - cumulative[i]))
              \div (cumulative[i + 1] - cumulative[i])
          - points[start + 1].timestamp_ms

\* C2: for a track of at least two points with non-decreasing timestamps,
\* find_best_segment_time returns no result when the last cumulative distance is
\* below the target; otherwise it returns the minimum over every start index whose
\* window reaches the target of (time interpolated at cumulative[start] + target)
\* - timestamp[start], with the start_idx and end_idx of a window achieving it.
C2_BestSegmentIsMinimumOverWindows ==
    (/\ seg.op = "find_best_segment_time"
     /\ Len(seg.points) >= 2
     /\ NonDecreasing(seg.points)) =>
        LET points == seg.points
            cumulative == seg.cumulative
            target == seg.target_distance_m
            starts == ReachingStarts(cumulative, target)
        IN  IF cumulative[Len(cumulative)] < target
            THEN seg.ret = None
            ELSE /\ seg.ret.found
                 /\ seg.ret.value.distance_meters = target
                 /\ seg.ret.value.start_idx \in starts
                 /\ seg.ret.value.time_ms
                      = WindowTime(points, cumulative, seg.ret.value.start_idx, target)
                 /\ \A start \in starts :
                        seg.ret.value.time_ms <= WindowTime(points, cumulative, start, target)
                 /\ seg.ret.value.end_idx
                      = FirstReaching(cumulative, seg.ret.value.start_idx,
                            cumulative[seg.ret.value.start_idx + 1] + target)

\* a best segment that does not start at the first point and ends inside a
\* segment, so that the end time is interpolated
C2_Witness ==
    /\ seg.op = "find_best_segment_time"
    /\ Len(seg.points) >= 3
    /\ NonDecreasing(seg.points)
    /\ seg.ret.found
    /\ seg.ret.value.start_idx > 0
    /\ seg.cumulative[seg.ret.value.end_idx + 1]
         > seg.cumulative[seg.ret.value.start_idx + 1] + seg.target_distance_m

(***************************************************************************)
(* Reading aids for the registry claims                                    *)
(***************************************************************************)
\* the indices of the records stored for exactly this activity type and distance
RecordsFor(records, activity_type, distance_meters) ==
    {i \in 1 .. Len(records) :
        /\ records[i].activity_type = activity_type
        /\ records[i].distance_meters = distance_meters}

Keys == ModelTypes \X StandardDistances

HasRecord(records, key) == Get(records, key[1], key[2]).found

TimeOf(records, key) == Get(records, key[1], key[2]).value.time_ms

\* distance rounded to the nearest metre (f64::round on a non-negative value)
RoundedMeters(distance_meters) ==
    (2 * distance_meters + UnitsPerMeter) \div (2 * UnitsPerMeter)

\* at most one record per (activity type, distance rounded to the nearest metre)
OneRecordPerKey(records) ==
    \A i, j \in 1 .. Len(records) :
        (/\ records[i].activity_type = records[j].activity_type
         /\ RoundedMeters(records[i].distance_meters)
              = RoundedMeters(records[j].distance_meters)) => i = j

\* C3: update(pb) on a registry that holds a record for pb's activity type and
\* distance replaces that record by pb and returns true when pb.time_ms is strictly
\* smaller than the stored time_ms, and leaves the registry unchanged and returns
\* false on an equal or larger time; with no such record pb is added at the end and
\* update returns true.
C3_UpdateReplacesOnlyIfStrictlyFaster ==
    last.op = "update" =>
        LET same == RecordsFor(last.existing, last.pb.activity_type,
                               last.pb.distance_meters)
        IN  IF same # {}
            THEN \A i \in same :
                     IF last.pb.time_ms < last.existing[i].time_ms
                     THEN /\ last.ret = TRUE
                          /\ pbs = [last.existing EXCEPT ![i] = last.pb]
                     ELSE /\ last.ret = FALSE
                          /\ pbs = last.existing
            ELSE /\ last.ret = TRUE
                 /\ pbs = Append(last.existing, last.pb)

\* update was handed a record with the stored time for a key the registry holds
C3_Witness ==
    /\ last.op = "update"
    /\ \E i \in RecordsFor(last.existing, last.pb.activity_type, last.pb.distance_meters) :
           last.pb.time_ms = last.existing[i].time_ms
    /\ last.ret = FALSE
    /\ Len(pbs) >= 2

\* C4: across update and update_pbs steps a key that has a record keeps having one,
\* and the time_ms stored for it never increases from one step to the next.
C4_RecordsStayAndTimesNeverIncrease ==
    [][\A key \in Keys :
           HasRecord(pbs, key) =>
               /\ HasRecord(pbs', key)
               /\ TimeOf(pbs', key) <= TimeOf(pbs, key)]_vars

\* every key has a record, and some step replaced a stored record by a faster one
C4_Witness ==
    /\ last.op = "steps"
    /\ last.improved
    /\ Len(pbs) = Cardinality(Keys)

\* C5 as stated: after any sequence of update calls with arbitrary distances on an
\* initially empty registry there is at most one record per key (activity type,
\* distance rounded to the nearest metre).
C5_OneRecordPerRoundedKey == OneRecordPerKey(pbs)

\* C5 amended: after any sequence of update calls whose distances are standard
\* distances of the record's activity type, on an initially empty registry, there
\* is at most one record per key.
C5_OneRecordPerStandardKey == ~arbitrary => OneRecordPerKey(pbs)

\* only standard distances were used, the registry holds several keys, and an
\* update met the record of its key and replaced it
C5_Witness ==
    /\ ~arbitrary
    /\ last.op = "steps"
    /\ last.improved
    /\ Len(pbs) >= 2

\* the personal best update_pbs makes of a segment result
PersonalBestOf(activity, segment) ==
    PersonalBestNew(activity.activity_type, segment.distance_meters, segment.time_ms,
                    activity.id, activity.recorded_at)

\* a segment result with no existing record for its key, or strictly faster than it
BeatsExisting(existing, activity, segment) ==
    LET stored == RecordsFor(existing, activity.activity_type, segment.distance_meters)
    IN  \A i \in stored : segment.time_ms < existing[i].time_ms

RECURSIVE Filtered(_, _, _, _)
\* the personal bests of segment_times[k ..] that beat the existing registry
Filtered(existing, activity, segment_times, k) ==
    IF k > Len(segment_times) THEN <<>>
    ELSE IF BeatsExisting(existing, activity, segment_times[k])
    THEN <<PersonalBestOf(activity, segment_times[k])>>
           \o Filtered(existing, activity, segment_times, k + 1)
    ELSE Filtered(existing, activity, segment_times, k + 1)

\* C6: update_pbs reports as newly achieved exactly the segment results that have no
\* existing record for their (activity type, distance) or are strictly faster than
\* it; for a tied or slower result and for every key the activity does not cover,
\* the record in the returned registry is the one in existing.
C6_AchievedExactlyTheFasterAndRestUntouched ==
    last.op = "update_pbs" =>
        /\ last.achieved_pbs = Filtered(last.existing, last.activity, last.segment_times, 1)
        /\ \A key \in Keys :
               LET results == {k \in 1 .. Len(last.segment_times) :
                                  /\ last.activity.activity_type = key[1]
                                  /\ last.segment_times[k].distance_meters = key[2]}
               IN  (\A k \in results :
                        ~BeatsExisting(last.existing, last.activity, last.segment_times[k]))
                   => /\ RecordsFor(last.new_pbs, key[1], key[2])
                           = RecordsFor(last.existing, key[1], key[2])
                      /\ \A i \in RecordsFor(last.existing, key[1], key[2]) :
                             last.new_pbs[i] = last.existing[i]

\* one activity with a result faster than the stored record and a result tied with
\* or slower than the stored record
C6_Witness ==
    /\ last.op = "update_pbs"
    /\ \E k \in 1 .. Len(last.segment_times) :
           /\ HasRecord(last.existing,
                        <<last.activity.activity_type, last.segment_times[k].distance_meters>>)
           /\ BeatsExisting(last.existing, last.activity, last.segment_times[k])
    /\ \E k \in 1 .. Len(last.segment_times) :
           ~BeatsExisting(last.existing, last.activity, last.segment_times[k])

\* C7: if (R1, N1) = update_pbs(R, A) and (R2, N2) = update_pbs(R1, A), then N2 is
\* empty and R2 holds the same records as R1.
C7_UpdatePbsTwiceChangesNothing ==
    last.op = "update_pbs" =>
        LET second == update_pbs(last.new_pbs, last.activity)
        IN  /\ second.achieved_pbs = <<>>
            /\ second.new_pbs = last.new_pbs

\* the first application achieved one personal best by replacing a record and one
\* by adding a record
C7_Witness ==
    /\ last.op = "update_pbs"
    /\ Len(last.achieved_pbs) >= 2
    /\ Len(last.new_pbs) = Len(last.existing) + 1

(***************************************************************************)
(* The runner standing on the ghost track's first point                    *)
(***************************************************************************)
\* C11: when current_pos equals the ghost track's first point, get_pacing_status
\* returns Behind exactly when the ghost's distance at elapsed_ms is greater than
\* zero, and Ahead otherwise; at elapsed_ms = 0 the status is not Behind.
C11_AtStartBehindIffGhostAdvanced ==
    (query.op = "get_pacing_status" /\ coords # <<>> /\ query.lat = coords[1].lat) =>
        /\ query.ret \in {"Behind", "Ahead"}
        /\ (query.ret = "Behind") <=> (GhostDistance.num > 0)
        /\ query.elapsed_ms = 0 => query.ret # "Behind"

\* the runner is at the first point of a track of several points and the ghost has
\* moved on: Behind
C11_Witness ==
    /\ query.op = "get_pacing_status"
    /\ Len(coords) >= 2
    /\ query.lat = coords[1].lat
    /\ GhostDistance.num > 0
    /\ query.ret = "Behind"

(***************************************************************************)
(* macos.rs / android.rs: the process-wide session                         *)
(*   static SESSION: Mutex<Option<BansheeSession>>                         *)
(* called from several threads.  Every FFI function takes the mutex,       *)
(* works on the guarded value and releases the mutex when the guard goes   *)
(* out of scope.  The store `*guard = Some(session)` moves a struct of two *)
(* fields and a query reads both fields; the model takes these field by    *)
(* field, so that what the mutex is for is visible.                        *)
(***************************************************************************)
NumThreads == 3

Threads == 1 .. NumThreads

\* ghost tracks handed to banshee_init_session (total distances 1 and 2)
FfiTracks == {<<Point(0, 0), Point(1, 1)>>, <<Point(0, 0), Point(2, 1)>>}

\* elapsed_ms handed to the queries; the runner is at lat 0
FfiElapsed == {0, 2}

\* Option<BansheeSession>
NoneSession == [some |-> FALSE, best_run_coords |-> <<>>, best_run_total_distance |-> 0]

SomeSession(s) == [some |-> TRUE, best_run_coords |-> s.best_run_coords, best_run_total_distance |-> s.best_run_total_distance]

NoLocal == [session |-> NoneSession, at_lock |-> NoneSession, elapsed_ms |-> 0, ret |-> 0]

\* SESSION.lock() succeeds for thread t when no thread holds the mutex
CanLockUnguarded(f, t) == TRUE

CanLock(f, t) == f.holder = 0

\* the return code of banshee_get_pacing_status for a PacingStatus
StatusCode(status) ==
    IF status = "Ahead" THEN 0 ELSE IF status = "Behind" THEN 1 ELSE 2

InitFfi ==
    /\ session = BansheeSessionNew(<<>>)
    /\ query = NoQuery
    /\ seg = NoSeg
    /\ pbs = <<>>
    /\ last = NoLast
    /\ arbitrary = FALSE
    /\ geo = NoGeo
    /\ ffi = [op |-> "ffi",
              SESSION |-> NoneSession,
              holder |-> 0,
              pc |-> [t \in Threads |-> "idle"],
              local |-> [t \in Threads |-> NoLocal]]

\* banshee_init_session up to the lock: the record is parsed and the session built
InitSessionBuild(t) ==
    \E track \in FfiTracks :
        /\ ffi.pc[t] = "idle"
        /\ ffi' = [ffi EXCEPT !.pc[t] = "init_lock",
                              !.local[t].session = SomeSession(BansheeSessionNew(track))]

InitSessionLock(t) ==
    /\ ffi.pc[t] = "init_lock"
    /\ CanLock(ffi, t)
    /\ ffi' = [ffi EXCEPT !.holder = t, !.pc[t] = "init_store_coords"]

\* *guard = Some(session): the track
InitSessionStoreCoords(t) ==
    /\ ffi.pc[t] = "init_store_coords"
    /\ ffi' = [ffi EXCEPT !.SESSION.best_run_coords = ffi.local[t].session.best_run_coords,
                          !.pc[t] = "init_store_total"]

\* *guard = Some(session): the cached total and the discriminant
InitSessionStoreTotal(t) ==
    /\ ffi.pc[t] = "init_store_total"
    /\ ffi' = [ffi EXCEPT !.SESSION.best_run_total_distance = ffi.local[t].session.best_run_total_distance,
                          !.SESSION.some = TRUE,
                          !.local[t].ret = 0,
                          !.pc[t] = "unlock"]

ClearSessionLock(t) ==
    /\ ffi.pc[t] = "idle"
    /\ CanLock(ffi, t)
    /\ ffi' = [ffi EXCEPT !.holder = t, !.pc[t] = "clear_store"]

\* *guard = None
ClearSessionStore(t) ==
    /\ ffi.pc[t] = "clear_store"
    /\ ffi' = [ffi EXCEPT !.SESSION = NoneSession, !.pc[t] = "unlock"]

\* banshee_get_pacing_status(lat 0, lon, elapsed_ms): lock
PacingStatusLock(t) ==
    \E elapsed_ms \in FfiElapsed :
        /\ ffi.pc[t] = "idle"
        /\ CanLock(ffi, t)
        /\ ffi' = [ffi EXCEPT !.holder = t,
                              !.pc[t] = "query_match",
                              !.local[t] = [NoLocal EXCEPT !.at_lock = ffi.SESSION,
                                                           !.elapsed_ms = elapsed_ms]]

\* if let Some(ref session) = *guard ... else -1
PacingStatusMatch(t) ==
    /\ ffi.pc[t] = "query_match"
    /\ IF ffi.SESSION.some
       THEN ffi' = [ffi EXCEPT !.pc[t] = "query_read_coords", !.local[t].session.some = TRUE]
       ELSE ffi' = [ffi EXCEPT !.pc[t] = "unlock", !.local[t].ret = -1]

\* the query reads the track ...
PacingStatusReadCoords(t) ==
    /\ ffi.pc[t] = "query_read_coords"
    /\ ffi' = [ffi EXCEPT !.local[t].session.best_run_coords = ffi.SESSION.best_run_coords,
                          !.pc[t] = "query_read_total"]

\* ... and the cached total, and returns the status code
PacingStatusReadTotal(t) ==
    /\ ffi.pc[t] = "query_read_total"
    /\ LET seen == [ffi.local[t].session EXCEPT !.best_run_total_distance = ffi.SESSION.best_run_total_distance]
           point == Point(0, ffi.local[t].elapsed_ms)
       IN  ffi' = [ffi EXCEPT !.local[t].session = seen,
                              !.local[t].ret = StatusCode(get_pacing_status(seen, point, ffi.local[t].elapsed_ms)),
                              !.pc[t] = "query_done"]

\* the guard is dropped and the function returns
Unlock(t) ==
    /\ ffi.pc[t] \in {"unlock", "query_done"}
    /\ ffi' = [ffi EXCEPT !.holder = 0, !.pc[t] = "idle", !.local[t] = NoLocal]

NextFfi ==
    /\ \E t \in Threads :
           \/ InitSessionBuild(t)
           \/ InitSessionLock(t)
           \/ InitSessionStoreCoords(t)
           \/ InitSessionStoreTotal(t)
           \/ ClearSessionLock(t)
           \/ ClearSessionStore(t)
           \/ PacingStatusLock(t)
           \/ PacingStatusMatch(t)
           \/ PacingStatusReadCoords(t)
           \/ PacingStatusReadTotal(t)
           \/ Unlock(t)
    /\ UNCHANGED <<session, query, seg, pbs, last, arbitrary, geo>>

SpecFfi == InitFfi /\ [][NextFfi]_vars

\* the program points at which a thread works on the guarded value
Critical == {"init_store_coords", "init_store_total", "clear_store", "query_match", "query_read_coords", "query_read_total", "query_done", "unlock"}

\* the values SESSION can be given by one whole initialisation or clear
WholeSessions == {NoneSession} \union {SomeSession(BansheeSessionNew(track)) : track \in FfiTracks}

\* C12: with banshee_init_session and banshee_clear_session running concurrently
\* with pacing queries, a thread works on SESSION only while it holds the mutex
\* (so at most one does), and what a finished query has read is exactly the value
\* SESSION had when the query took the lock: absent, or the track and cached total
\* of one initialisation.
C12_QueriesSeeWholeSessions ==
    /\ ffi.op = "ffi"
    /\ \A t \in Threads :
           /\ ffi.pc[t] \in Critical => ffi.holder = t
           /\ ffi.pc[t] \in {"query_match", "query_read_coords", "query_read_total", "query_done"} =>
                  /\ ffi.local[t].at_lock \in WholeSessions
                  /\ ffi.SESSION = ffi.local[t].at_lock
           /\ ffi.pc[t] = "query_done" =>
                  /\ ffi.local[t].session = ffi.local[t].at_lock
                  /\ ffi.local[t].session.best_run_total_distance
                         = calculate_total_distance(ffi.local[t].session.best_run_coords)
           /\ (ffi.pc[t] = "unlock" /\ ffi.local[t].ret = -1) => ffi.SESSION = NoneSession

\* a query has read the whole of one session while another thread, with a
\* different session built, waits for the mutex to replace it
C12_Witness ==
    /\ ffi.op = "ffi"
    /\ \E t, u \in Threads :
           /\ ffi.pc[t] = "query_done"
           /\ ffi.local[t].session.some
           /\ ffi.pc[u] = "init_lock"
           /\ ffi.local[u].session # ffi.local[t].session

(***************************************************************************)
(* rust/src/geo: distance.rs, pace.rs, interpolation.rs                    *)
(*                                                                         *)
(* A GpsPoint is its lat and its timestamp (milliseconds, signed); lon is  *)
(* the same for all points and the optional fields are absent.  Distances  *)
(* are whole numbers of a unit of half the interpolation epsilon           *)
(* (0.0005 m), so that a segment can be shorter than, equal to or longer   *)
(* than the epsilon; an interpolated lat or distance is a fraction         *)
(* [num, den] with den > 0.                                                *)
(***************************************************************************)
MaxGeoLen == 3

GeoLats == {0, 1, 3}

GeoTimes == {0, 2, 4}

\* the 0.001 of the segment-length tests, in distance units
Epsilon == 2

GpsPoint(lat, timestamp) == [lat |-> lat, timestamp |-> timestamp]

GpsPoints == {GpsPoint(lat, timestamp) : lat \in GeoLats, timestamp \in GeoTimes}

GeoTracks == SeqUpTo(GpsPoints, MaxGeoLen)

\* timestamps of a track in recording order
GeoNonDecreasing(points) ==
    \A i \in 1 .. Len(points) - 1 : points[i].timestamp <= points[i + 1].timestamp

\* x as i64 for the f64 value num/den (den > 0): truncation toward zero
AsI64(num, den) == IF num >= 0 THEN num \div den ELSE -((-num) \div den)

\* comparisons of fractions
FracLe(a, b) == a.num * b.den <= b.num * a.den

FracLt(a, b) == a.num * b.den < b.num * a.den

FracEq(a, b) == a.num * b.den = b.num * a.den

haversine_distance_points(p1, p2) == Abs(p2.lat - p1.lat)

RECURSIVE CumulativeDistancesLoop(_, _, _)
\* the for loop of cumulative_distances; i is the code's index
CumulativeDistancesLoop(points, distances, i) ==
    IF i >= Len(points) THEN distances
    ELSE LET prev_distance == distances[i]
             segment_distance == haversine_distance_points(points[i], points[i + 1])
         IN  CumulativeDistancesLoop(points, Append(distances, prev_distance + segment_distance), i + 1)

cumulative_distances(points) ==
    IF points = <<>> THEN <<>> ELSE CumulativeDistancesLoop(points, <<0>>, 1)

\* the Split pushed at code index i (pace_sec_per_km, derived from the distance
\* and the duration, is left out)
SplitAt(points, cumulative, i, split_num, target_distance, split_distance_m, prev_split_time_ms) ==
    LET start_time == points[1].timestamp
        segment_distance == cumulative[i + 1] - cumulative[i]
        segment_time == points[i + 1].timestamp - points[i].timestamp
        time_ms == IF segment_distance > Epsilon
                   THEN LET base_time == points[i].timestamp - start_time
                        IN  AsI64(base_time * segment_distance + segment_time * (target_distance - cumulative[i]), segment_distance)
                   ELSE points[i + 1].timestamp - start_time
    IN  [number |-> split_num,
         distance_m |-> split_distance_m,
         duration_ms |-> time_ms - prev_split_time_ms,
         cumulative_distance_m |-> target_distance,
         cumulative_time_ms |-> time_ms]

RECURSIVE SplitsLoopNoCarry(_, _, _, _, _, _, _, _)
\* as SplitsLoop, with prev_split_time_ms never updated
SplitsLoopNoCarry(points, cumulative, split_distance_m, i, splits, split_num, target_distance, prev_split_time_ms) ==
    IF i >= Len(points) THEN splits
    ELSE IF cumulative[i + 1] >= target_distance
    THEN LET split == SplitAt(points, cumulative, i, split_num, target_distance, split_distance_m, prev_split_time_ms)
         IN  SplitsLoopNoCarry(points, cumulative, split_distance_m, i + 1, Append(splits, split), split_num + 1, target_distance + split_distance_m, prev_split_time_ms)
    ELSE SplitsLoopNoCarry(points, cumulative, split_distance_m, i + 1, splits, split_num, target_distance, prev_split_time_ms)

RECURSIVE SplitsLoop(_, _, _, _, _, _, _, _)
\* the for loop of calculate_splits; i is the code's index (1 .. len - 1): one
\* `if` per point
SplitsLoop(points, cumulative, split_distance_m, i, splits, split_num, target_distance, prev_split_time_ms) ==
    IF i >= Len(points) THEN splits
    ELSE IF cumulative[i + 1] >= target_distance
    THEN LET split == SplitAt(points, cumulative, i, split_num, target_distance, split_distance_m, prev_split_time_ms)
         IN  SplitsLoop(points, cumulative, split_distance_m, i + 1, Append(splits, split), split_num + 1, target_distance + split_distance_m, split.cumulative_time_ms)
    ELSE SplitsLoop(points, cumulative, split_distance_m, i + 1, splits, split_num, target_distance, prev_split_time_ms)

calculate_splits(points, split_distance_m) ==
    IF Len(points) < 2 \/ split_distance_m <= 0 THEN <<>>
    ELSE LET cumulative == cumulative_distances(points)
             total_distance == cumulative[Len(cumulative)]
         IN  IF total_distance < split_distance_m THEN <<>>
             ELSE SplitsLoop(points, cumulative, split_distance_m, 1, <<>>, 1, split_distance_m, 0)

\* a track point returned as it is (points[i].clone())
Clone(p) == [lat |-> Whole(p.lat), timestamp |-> p.timestamp]

\* interpolate_by_fraction for the fraction num/den
interpolate_by_fraction(p1, p2, fraction) ==
    [lat |-> [num |-> p1.lat * fraction.den + (p2.lat - p1.lat) * fraction.num, den |-> fraction.den],
     timestamp |-> p1.timestamp + AsI64((p2.timestamp - p1.timestamp) * fraction.num, fraction.den)]

\* f64::clamp(0.0, 1.0)
Clamp01(fraction) ==
    IF fraction.num < 0 THEN Whole(0)
    ELSE IF fraction.num > fraction.den THEN Whole(1)
    ELSE fraction

interpolate_between_unguarded(p1, p2, target_time) ==
    LET segment_duration == p2.timestamp - p1.timestamp
        elapsed == target_time - p1.timestamp
    IN  IF segment_duration < 0 THEN Clone(p1)
        ELSE IF segment_duration = 0 THEN Clone(p2)
        ELSE interpolate_by_fraction(p1, p2, Clamp01([num |-> elapsed, den |-> segment_duration]))

interpolate_between(p1, p2, target_time) ==
    LET segment_duration == p2.timestamp - p1.timestamp
        elapsed == target_time - p1.timestamp
    IN  IF segment_duration <= 0 THEN Clone(p1)
        ELSE interpolate_by_fraction(p1, p2, Clamp01([num |-> elapsed, den |-> segment_duration]))

RECURSIVE InterpolatePositionLoop(_, _, _)
\* the for loop of interpolate_position and what follows it; i is 1-based
InterpolatePositionLoop(points, elapsed_ms, i) ==
    LET target_time == points[1].timestamp + elapsed_ms IN
    IF i > Len(points) - 1
    THEN IF elapsed_ms > 0 THEN Some(Clone(points[Len(points)])) ELSE Some(Clone(points[1]))
    ELSE LET p1 == points[i]
             p2 == points[i + 1]
         IN  IF target_time >= p1.timestamp /\ target_time <= p2.timestamp
             THEN Some(interpolate_between(p1, p2, target_time))
             ELSE InterpolatePositionLoop(points, elapsed_ms, i + 1)

interpolate_position(points, elapsed_ms) ==
    IF points = <<>> THEN None
    ELSE IF Len(points) = 1 THEN Some(Clone(points[1]))
    ELSE InterpolatePositionLoop(points, elapsed_ms, 1)

RECURSIVE PositionAtDistanceLoop(_, _, _, _)
\* the for loop of interpolate_position_at_distance and what follows it
PositionAtDistanceLoop(points, cumulative, distance_m, i) ==
    IF i > Len(points) - 1 THEN Some(Clone(points[Len(points)]))
    ELSE LET d1 == cumulative[i]
             d2 == cumulative[i + 1]
         IN  IF FracLe(Whole(d1), distance_m) /\ FracLe(distance_m, Whole(d2))
             THEN LET segment_length == d2 - d1 IN
                  IF segment_length < Epsilon THEN Some(Clone(points[i]))
                  ELSE Some(interpolate_by_fraction(points[i], points[i + 1],
                                [num |-> distance_m.num - d1 * distance_m.den,
                                 den |-> segment_length * distance_m.den]))
             ELSE PositionAtDistanceLoop(points, cumulative, distance_m, i + 1)

interpolate_position_at_distance(points, distance_m) ==
    IF points = <<>> THEN None
    ELSE IF Len(points) = 1 \/ distance_m.num <= 0 THEN Some(Clone(points[1]))
    ELSE LET cumulative == cumulative_distances(points)
             total_distance == cumulative[Len(cumulative)]
         IN  IF FracLe(Whole(total_distance), distance_m) THEN Some(Clone(points[Len(points)]))
             ELSE PositionAtDistanceLoop(points, cumulative, distance_m, 1)

RECURSIVE TimeAtDistanceGeoLoopNoBase(_, _, _, _)
\* as TimeAtDistanceGeoLoop, with the time offset of the segment's start dropped
TimeAtDistanceGeoLoopNoBase(points, cumulative, distance_m, i) ==
    IF i > Len(points) - 1 THEN None
    ELSE LET d1 == cumulative[i]
             d2 == cumulative[i + 1]
         IN  IF FracLe(Whole(d1), distance_m) /\ FracLe(distance_m, Whole(d2))
             THEN LET segment_length == d2 - d1
                      segment_time == points[i + 1].timestamp - points[i].timestamp
                  IN  IF segment_length > Epsilon
                      THEN Some(AsI64(segment_time * (distance_m.num - d1 * distance_m.den),
                                      segment_length * distance_m.den))
                      ELSE Some(0)
             ELSE TimeAtDistanceGeoLoopNoBase(points, cumulative, distance_m, i + 1)

RECURSIVE TimeAtDistanceGeoLoop(_, _, _, _)
\* the for loop of time_at_distance and what follows it
TimeAtDistanceGeoLoop(points, cumulative, distance_m, i) ==
    IF i > Len(points) - 1 THEN None
    ELSE LET d1 == cumulative[i]
             d2 == cumulative[i + 1]
         IN  IF FracLe(Whole(d1), distance_m) /\ FracLe(distance_m, Whole(d2))
             THEN LET segment_length == d2 - d1
                      segment_time == points[i + 1].timestamp - points[i].timestamp
                      base_time == points[i].timestamp - points[1].timestamp
                  IN  IF segment_length > Epsilon
                      THEN Some(base_time + AsI64(segment_time * (distance_m.num - d1 * distance_m.den),
                                                  segment_length * distance_m.den))
                      ELSE Some(base_time)
             ELSE TimeAtDistanceGeoLoop(points, cumulative, distance_m, i + 1)

time_at_distance(points, distance_m) ==
    IF points = <<>> THEN None
    ELSE IF distance_m.num <= 0 THEN Some(0)
    ELSE LET cumulative == cumulative_distances(points)
             total_distance == cumulative[Len(cumulative)]
         IN  IF FracLe(Whole(total_distance), distance_m)
             THEN Some(points[Len(points)].timestamp - points[1].timestamp)
             ELSE TimeAtDistanceGeoLoop(points, cumulative, distance_m, 1)

RECURSIVE DistanceAtTimeGeoLoop(_, _, _, _)
\* the for loop of distance_at_time and what follows it
DistanceAtTimeGeoLoop(points, cumulative, elapsed_ms, i) ==
    LET target_time == points[1].timestamp + elapsed_ms IN
    IF i > Len(points) - 1 THEN Whole(cumulative[Len(cumulative)])
    ELSE LET p1 == points[i]
             p2 == points[i + 1]
         IN  IF target_time >= p1.timestamp /\ target_time <= p2.timestamp
             THEN LET segment_time == p2.timestamp - p1.timestamp IN
                  IF segment_time > 0
                  THEN LET elapsed_in_segment == target_time - p1.timestamp
                           segment_distance == cumulative[i + 1] - cumulative[i]
                       IN  [num |-> cumulative[i] * segment_time + segment_distance * elapsed_in_segment,
                            den |-> segment_time]
                  ELSE Whole(cumulative[i])
             ELSE DistanceAtTimeGeoLoop(points, cumulative, elapsed_ms, i + 1)

distance_at_time(points, elapsed_ms) ==
    IF points = <<>> \/ elapsed_ms <= 0 THEN Whole(0)
    ELSE DistanceAtTimeGeoLoop(points, cumulative_distances(points), elapsed_ms, 1)

(***************************************************************************)
(* The geo functions applied to a track: Init ranges over the tracks, and  *)
(* each action applies one function to the track and its other argument.   *)
(***************************************************************************)
MaxSplit == 2

\* elapsed_ms arguments: before the start, inside and beyond every duration
GeoElapsed == -2 .. 5

\* distance_m arguments: halves of a distance unit from below zero upward
GeoDistances == {[num |-> n, den |-> 2] : n \in -1 .. 9}

InitGeo ==
    /\ session = BansheeSessionNew(<<>>)
    /\ query = NoQuery
    /\ seg = NoSeg
    /\ pbs = <<>>
    /\ last = NoLast
    /\ arbitrary = FALSE
    /\ ffi = NoFfi
    /\ geo \in {[op |-> "track", points |-> points] : points \in GeoTracks}

CalculateSplits ==
    \E split_distance_m \in 0 .. MaxSplit :
        /\ geo.op = "track"
        /\ geo' = [op |-> "calculate_splits", points |-> geo.points,
                   split_distance_m |-> split_distance_m,
                   ret |-> calculate_splits(geo.points, split_distance_m)]
        /\ UNCHANGED <<session, query, seg, pbs, last, arbitrary, ffi>>

InterpolatePosition ==
    \E elapsed_ms \in GeoElapsed :
        /\ geo.op = "track"
        /\ geo' = [op |-> "interpolate_position", points |-> geo.points,
                   elapsed_ms |-> elapsed_ms,
                   ret |-> interpolate_position(geo.points, elapsed_ms)]
        /\ UNCHANGED <<session, query, seg, pbs, last, arbitrary, ffi>>

InterpolatePositionAtDistance ==
    \E distance_m \in GeoDistances :
        /\ geo.op = "track"
        /\ geo' = [op |-> "interpolate_position_at_distance", points |-> geo.points,
                   distance_m |-> distance_m,
                   ret |-> interpolate_position_at_distance(geo.points, distance_m)]
        /\ UNCHANGED <<session, query, seg, pbs, last, arbitrary, ffi>>

TimeAtDistance ==
    \E distance_m \in GeoDistances :
        /\ geo.op = "track"
        /\ geo' = [op |-> "time_at_distance", points |-> geo.points,
                   distance_m |-> distance_m,
                   ret |-> time_at_distance(geo.points, distance_m)]
        /\ UNCHANGED <<session, query, seg, pbs, last, arbitrary, ffi>>

DistanceAtTime ==
    \E elapsed_ms \in GeoElapsed :
        /\ geo.op = "track"
        /\ geo' = [op |-> "distance_at_time", points |-> geo.points,
                   elapsed_ms |-> elapsed_ms,
                   ret |-> distance_at_time(geo.points, elapsed_ms)]
        /\ UNCHANGED <<session, query, seg, pbs, last, arbitrary, ffi>>

NextGeo ==
    \/ CalculateSplits
    \/ InterpolatePosition
    \/ InterpolatePositionAtDistance
    \/ TimeAtDistance
    \/ DistanceAtTime

SpecGeo == InitGeo /\ [][NextGeo]_vars

(***************************************************************************)
(* Reading aids for the geo claims                                         *)
(***************************************************************************)
\* total distance of the track of the last geo call
GeoTotal == IF Len(geo.points) < 2 THEN 0 ELSE SumWindows(geo.points, Len(geo.points) - 1)

\* duration of the track of the last geo call
GeoDuration == geo.points[Len(geo.points)].timestamp - geo.points[1].timestamp

RECURSIVE SumDurations(_, _)
SumDurations(splits, k) ==
    IF k = 0 THEN 0 ELSE SumDurations(splits, k - 1) + splits[k].duration_ms

\* C13: calculate_splits(track, d) with d > 0 produces exactly floor(total / d)
\* splits on every track with non-decreasing timestamps, each with a positive
\* duration, the k-th with cumulative distance k * d.
C13_SplitCountIsFloorOfTotal ==
    (geo.op = "calculate_splits" /\ geo.split_distance_m > 0 /\ GeoNonDecreasing(geo.points)) =>
        /\ Len(geo.ret) = GeoTotal \div geo.split_distance_m
        /\ \A k \in 1 .. Len(geo.ret) :
               /\ geo.ret[k].duration_ms > 0
               /\ geo.ret[k].cumulative_distance_m = k * geo.split_distance_m

\* C14: in the list calculate_splits returns, split numbers are 1, 2, ... without
\* gaps, each duration is the split's boundary time minus the previous split's
\* boundary time (0 before the first), so the durations of splits 1 .. k sum to
\* split k's cumulative_time_ms; no boundary lies beyond the total distance, and
\* the list is empty when the total distance is below one split length.
C14_SplitsChainBoundaryTimes ==
    geo.op = "calculate_splits" =>
        /\ \A k \in 1 .. Len(geo.ret) :
               /\ geo.ret[k].number = k
               /\ geo.ret[k].duration_ms
                      = geo.ret[k].cumulative_time_ms
                          - (IF k = 1 THEN 0 ELSE geo.ret[k - 1].cumulative_time_ms)
               /\ SumDurations(geo.ret, k) = geo.ret[k].cumulative_time_ms
               /\ geo.ret[k].distance_m = geo.split_distance_m
               /\ geo.ret[k].cumulative_distance_m = k * geo.split_distance_m
               /\ geo.ret[k].cumulative_distance_m <= GeoTotal
        /\ GeoTotal < geo.split_distance_m => geo.ret = <<>>

\* two splits with positive boundary times and a positive second duration, on a
\* track that ends before a third boundary
C14_Witness ==
    /\ geo.op = "calculate_splits"
    /\ Len(geo.ret) = 2
    /\ geo.ret[1].cumulative_time_ms > 0
    /\ geo.ret[2].duration_ms > 0
    /\ GeoTotal > 2 * geo.split_distance_m

\* lat of the point returned by the last geo call equals the lat of track point p
RetIsAt(p) == geo.ret.found /\ FracEq(geo.ret.value.lat, Whole(p.lat))

\* x lies between a and b, whichever is larger
Between(x, a, b) ==
    \/ FracLe(Whole(a), x) /\ FracLe(x, Whole(b))
    \/ FracLe(Whole(b), x) /\ FracLe(x, Whole(a))

\* the call is interpolate_position on a track of two or more points with
\* non-decreasing timestamps
C15_Case ==
    /\ geo.op = "interpolate_position"
    /\ Len(geo.points) >= 2
    /\ GeoNonDecreasing(geo.points)

\* what C15 says of the times at or outside the ends and strictly inside the track
C15_OutsideAndInside ==
    /\ geo.elapsed_ms <= 0 => RetIsAt(geo.points[1])
    /\ geo.elapsed_ms > GeoDuration => RetIsAt(geo.points[Len(geo.points)])
    /\ (0 < geo.elapsed_ms /\ geo.elapsed_ms < GeoDuration) =>
           /\ geo.ret.found
           /\ \E i \in 1 .. Len(geo.points) - 1 :
                  LET target_time == geo.points[1].timestamp + geo.elapsed_ms IN
                  /\ geo.points[i].timestamp <= target_time
                  /\ target_time <= geo.points[i + 1].timestamp
                  /\ Between(geo.ret.value.lat, geo.points[i].lat, geo.points[i + 1].lat)

\* C15 as stated: interpolate_position(track, 0) is the first point,
\* interpolate_position(track, duration) is the last point also when several
\* trailing points share the final timestamp, elapsed_ms <= 0 gives the first point,
\* elapsed_ms beyond the duration the last, and an intermediate time a position
\* between its bracketing points.
C15_EndsAreFirstAndLastPoint ==
    C15_Case =>
        /\ C15_OutsideAndInside
        /\ geo.elapsed_ms = GeoDuration => RetIsAt(geo.points[Len(geo.points)])

\* the first point in sequence order that carries the track's final timestamp
FirstAtFinalTime ==
    LET final == geo.points[Len(geo.points)].timestamp
        j == CHOOSE j \in 1 .. Len(geo.points) :
                 /\ geo.points[j].timestamp = final
                 /\ \A k \in 1 .. j - 1 : geo.points[k].timestamp # final
    IN  geo.points[j]

\* C15 amended: as stated, except that interpolate_position(track, duration) is the
\* first point in sequence order that carries the final timestamp: the last point
\* when no other point shares its timestamp, the first point when the duration is 0.
C15_EndIsFirstPointAtFinalTime ==
    C15_Case =>
        /\ C15_OutsideAndInside
        /\ geo.elapsed_ms = GeoDuration => RetIsAt(FirstAtFinalTime)

\* the time asked for is a positive duration, two trailing points at different
\* positions share the final timestamp, and the earlier of the two is returned
C15_Witness ==
    /\ C15_Case
    /\ Len(geo.points) = 3
    /\ GeoDuration > 0
    /\ geo.elapsed_ms = GeoDuration
    /\ geo.points[2].timestamp = geo.points[3].timestamp
    /\ geo.points[2].lat # geo.points[3].lat
    /\ RetIsAt(geo.points[2])

\* the call is distance_at_time on a track with non-decreasing timestamps, for a
\* time from 0 to the track's duration
C16_Case ==
    /\ geo.op = "distance_at_time"
    /\ Len(geo.points) >= 1
    /\ GeoNonDecreasing(geo.points)
    /\ 0 <= geo.elapsed_ms
    /\ geo.elapsed_ms <= GeoDuration

\* time_at_distance applied to the distance the last call returned gives the time
\* asked for, within one millisecond
RoundTripsToTime ==
    LET back == time_at_distance(geo.points, geo.ret)
    IN  back.found /\ Abs(back.value - geo.elapsed_ms) <= 1

\* every segment of the track is longer than the epsilon
EverySegmentMoves ==
    \A i \in 1 .. Len(geo.points) - 1 :
        haversine_distance_points(geo.points[i], geo.points[i + 1]) > Epsilon

\* C16 as stated: time_at_distance(track, distance_at_time(track, t)) equals t
\* within the rounding error for every track with non-decreasing timestamps and
\* every t with 0 <= t <= duration, stationary stretches included.
C16_TimeAtDistanceInvertsDistanceAtTime == C16_Case => RoundTripsToTime

\* C16 amended: the same, for tracks on which every segment is longer than the
\* epsilon (the distance grows along every segment).
C16_InverseOnMovingTracks == (C16_Case /\ EverySegmentMoves) => RoundTripsToTime

\* a time strictly inside the second segment of a moving track is recovered
C16_Witness ==
    /\ C16_Case
    /\ EverySegmentMoves
    /\ Len(geo.points) = 3
    /\ geo.points[2].timestamp - geo.points[1].timestamp < geo.elapsed_ms
    /\ geo.elapsed_ms < GeoDuration
    /\ geo.ret.den > 1
    /\ geo.ret.num % geo.ret.den # 0
    /\ RoundTripsToTime

\* the segments (by index of their first point) whose timestamp interval contains t
TimeBrackets(points, t) ==
    {i \in 1 .. Len(points) - 1 : points[i].timestamp <= t /\ t <= points[i + 1].timestamp}

\* the segments whose cumulative-distance interval contains d
DistanceBrackets(cumulative, d) ==
    {i \in 1 .. Len(cumulative) - 1 :
        FracLe(Whole(cumulative[i]), d) /\ FracLe(d, Whole(cumulative[i + 1]))}

\* the first of a non-empty set of segments in sequence order
FirstOf(brackets) == CHOOSE i \in brackets : \A j \in brackets : i <= j

\* the distance covered at target time t as segment i gives it
DistanceInSegment(points, cumulative, i, t) ==
    LET segment_time == points[i + 1].timestamp - points[i].timestamp IN
    IF segment_time > 0
    THEN [num |-> cumulative[i] * segment_time + (cumulative[i + 1] - cumulative[i]) * (t - points[i].timestamp),
          den |-> segment_time]
    ELSE Whole(cumulative[i])

\* the position at distance d as segment i gives it
PositionInSegment(points, cumulative, i, d) ==
    LET segment_length == cumulative[i + 1] - cumulative[i] IN
    IF segment_length < Epsilon THEN Clone(points[i])
    ELSE interpolate_by_fraction(points[i], points[i + 1],
             [num |-> d.num - cumulative[i] * d.den, den |-> segment_length * d.den])

\* the elapsed time at distance d as segment i gives it
TimeInSegment(points, cumulative, i, d) ==
    LET segment_length == cumulative[i + 1] - cumulative[i]
        segment_time == points[i + 1].timestamp - points[i].timestamp
        base_time == points[i].timestamp - points[1].timestamp
    IN  IF segment_length > Epsilon
        THEN base_time + AsI64(segment_time * (d.num - cumulative[i] * d.den), segment_length * d.den)
        ELSE base_time

\* two returned points are the same position at the same time
SamePoint(p, q) == FracEq(p.lat, q.lat) /\ p.timestamp = q.timestamp

\* C17: interpolate_position, interpolate_position_at_distance, time_at_distance and
\* distance_at_time all compute their result from the first segment in sequence
\* order whose key interval contains the target, whenever some segment's interval
\* does (endpoints of the key range included; duplicate keys, zero-length or
\* zero-duration segments and non-monotonic timestamps included).
C17_FirstQualifyingBracketWins ==
    /\ geo.op \in {"interpolate_position", "distance_at_time"} =>
           LET target_time == geo.points[1].timestamp + geo.elapsed_ms
               brackets == TimeBrackets(geo.points, target_time)
           IN  brackets # {} =>
                   IF geo.op = "interpolate_position"
                   THEN /\ geo.ret.found
                        /\ SamePoint(geo.ret.value,
                               interpolate_between(geo.points[FirstOf(brackets)],
                                   geo.points[FirstOf(brackets) + 1], target_time))
                   ELSE FracEq(geo.ret, DistanceInSegment(geo.points,
                            cumulative_distances(geo.points), FirstOf(brackets), target_time))
    /\ geo.op \in {"interpolate_position_at_distance", "time_at_distance"} =>
           LET cumulative == cumulative_distances(geo.points)
               brackets == DistanceBrackets(cumulative, geo.distance_m)
           IN  brackets # {} =>
                   /\ geo.ret.found
                   /\ IF geo.op = "interpolate_position_at_distance"
                      THEN SamePoint(geo.ret.value,
                               PositionInSegment(geo.points, cumulative, FirstOf(brackets), geo.distance_m))
                      ELSE geo.ret.value = TimeInSegment(geo.points, cumulative, FirstOf(brackets), geo.distance_m)

\* C18: no interpolation divides by a zero or near-zero segment. When the segment
\* that brackets the target (the first one in sequence order) is shorter than the
\* epsilon, interpolate_position_at_distance returns that segment's start point and
\* time_at_distance the start point's time offset; when it has zero duration,
\* interpolate_position returns its start point and distance_at_time the cumulative
\* distance at its start.
C18_DegenerateSegmentGivesItsStart ==
    /\ geo.op \in {"interpolate_position_at_distance", "time_at_distance"} =>
           LET cumulative == cumulative_distances(geo.points)
               brackets == DistanceBrackets(cumulative, geo.distance_m)
           IN  (brackets # {} /\ cumulative[FirstOf(brackets) + 1] - cumulative[FirstOf(brackets)] < Epsilon) =>
                   /\ geo.ret.found
                   /\ IF geo.op = "interpolate_position_at_distance"
                      THEN SamePoint(geo.ret.value, Clone(geo.points[FirstOf(brackets)]))
                      ELSE geo.ret.value = geo.points[FirstOf(brackets)].timestamp - geo.points[1].timestamp
    /\ geo.op \in {"interpolate_position", "distance_at_time"} =>
           LET target_time == geo.points[1].timestamp + geo.elapsed_ms
               brackets == TimeBrackets(geo.points, target_time)
           IN  (brackets # {} /\ geo.points[FirstOf(brackets) + 1].timestamp = geo.points[FirstOf(brackets)].timestamp) =>
                   IF geo.op = "interpolate_position"
                   THEN /\ geo.ret.found
                        /\ SamePoint(geo.ret.value, Clone(geo.points[FirstOf(brackets)]))
                   ELSE FracEq(geo.ret, Whole(cumulative_distances(geo.points)[FirstOf(brackets)]))

(***************************************************************************)
(* Reading aids for the uniform-speed claim                                *)
(***************************************************************************)
\* distance between the first two points of the track
Spacing(points) == distance_to(points[1], points[2])

\* time between the first two points of the track
Step(points) == points[2].timestamp_ms - points[1].timestamp_ms

\* equally spaced points at equal time steps, moving
Uniform(points) ==
    /\ Len(points) >= 2
    /\ Spacing(points) > 0
    /\ Step(points) >= 0
    /\ \A i \in 1 .. Len(points) - 1 :
           /\ distance_to(points[i], points[i + 1]) = Spacing(points)
           /\ points[i + 1].timestamp_ms - points[i].timestamp_ms = Step(points)

\* C19: on a track of uniform speed v = spacing / step, the best segment time for a
\* target D not exceeding the total distance is D / v cut to whole milliseconds:
\* time_ms <= D * step / spacing < time_ms + 1, whether or not D is a multiple of
\* the spacing.
C19_UniformSpeedBestTime ==
    (/\ seg.op = "find_best_segment_time"
     /\ Uniform(seg.points)
     /\ seg.target_distance_m <= seg.cumulative[Len(seg.cumulative)]) =>
        /\ seg.ret.found
        /\ seg.ret.value.time_ms * Spacing(seg.points) <= seg.target_distance_m * Step(seg.points)
        /\ seg.target_distance_m * Step(seg.points) < (seg.ret.value.time_ms + 1) * Spacing(seg.points)

\* a target longer than one spacing and not a multiple of it, whose exact time
\* D / v is not a whole number of milliseconds
C19_Witness ==
    /\ seg.op = "find_best_segment_time"
    /\ Uniform(seg.points)
    /\ Len(seg.points) >= 3
    /\ seg.target_distance_m < seg.cumulative[Len(seg.cumulative)]
    /\ seg.target_distance_m > Spacing(seg.points)
    /\ seg.target_distance_m % Spacing(seg.points) # 0
    /\ (seg.target_distance_m * Step(seg.points)) % Spacing(seg.points) # 0
    /\ seg.ret.found
    /\ seg.ret.value.time_ms = (seg.target_distance_m * Step(seg.points)) \div Spacing(seg.points)

(***************************************************************************)
(* Reading aids for calculate_segment_times                                *)
(***************************************************************************)
\* position of a distance in the table of standard distances
TableIndex(target_distances, distance_meters) ==
    CHOOSE k \in 1 .. Len(target_distances) : target_distances[k] = distance_meters

\* C20: calculate_segment_times(activity) returns at most one result per standard
\* distance of the activity's type, in the order of the table, and only for standard
\* distances that do not exceed the activity's total distance; the list is empty
\* when the total distance is below the smallest standard distance of the type.
C20_SegmentTimesFollowTable ==
    last.op = "calculate_segment_times" =>
        LET target_distances == pb_distances(last.activity.activity_type)
            total == last.activity.total_distance_meters
        IN  /\ \A k \in 1 .. Len(last.ret) :
                   /\ \E j \in 1 .. Len(target_distances) : target_distances[j] = last.ret[k].distance_meters
                   /\ last.ret[k].distance_meters <= total
            /\ \A j, k \in 1 .. Len(last.ret) :
                   j < k => TableIndex(target_distances, last.ret[j].distance_meters)
                              < TableIndex(target_distances, last.ret[k].distance_meters)
            /\ total < target_distances[1] => last.ret = <<>>

\* a track that covers more than the stored total distance: two results are
\* returned in order and the standard distance above the total is left out
C20_Witness ==
    /\ last.op = "calculate_segment_times"
    /\ Len(last.ret) = 2
    /\ last.ret[1].distance_meters = Meters(1000)
    /\ last.ret[2].distance_meters = Meters(5000)
    /\ last.activity.total_distance_meters < Meters(10000)
    /\ calculate_total_distance(last.activity.coordinates) >= Meters(10000)

\* C21: every cumulative-distance array built from a track (cumulative_distances and
\* build_cumulative_distances) has exactly one entry per track point, for every track
\* length including 0; its first entry is 0, each later entry is the previous one
\* plus the distance between the two corresponding points, and its last entry is the
\* total distance of the track.
C21_CumulativeArraysParallelToTrack ==
    seg.op = "find_best_segment_time" =>
        LET points == seg.points
            cumulative == seg.cumulative
            gps == [i \in 1 .. Len(points) |-> GpsPoint(points[i].lat, points[i].timestamp_ms)]
            distances == cumulative_distances(gps)
        IN  /\ Len(cumulative) = Len(points)
            /\ Len(distances) = Len(gps)
            /\ \A i \in 1 .. Len(points) :
                   /\ cumulative[i] = IF i = 1 THEN 0 ELSE cumulative[i - 1] + distance_to(points[i - 1], points[i])
                   /\ distances[i] = IF i = 1 THEN 0 ELSE distances[i - 1] + haversine_distance_points(gps[i - 1], gps[i])
                   /\ i > 1 => cumulative[i] >= cumulative[i - 1] /\ distances[i] >= distances[i - 1]
            /\ Len(points) > 0 =>
                   /\ cumulative[Len(points)] = calculate_total_distance(points)
                   /\ distances[Len(points)] = calculate_total_distance(gps)

(***************************************************************************)
(* macos.rs: the foreign-call surface, one call at a time.  A call holds   *)
(* the SESSION mutex for the whole of its work on the session, so each     *)
(* call is one step.  A serialized argument is a null pointer, bytes that  *)
(* are not UTF-8, text that does not parse as the expected type, or the    *)
(* JSON text of a value; a returned pointer is None for null and Some of   *)
(* the value whose JSON text it points to.  ffi.installed follows the      *)
(* calls made: set by an init that returned 0, reset by a clear.           *)
(***************************************************************************)
\* the serialized arguments a caller can hand over for the values given
JsonArgs(values) ==
    {[tag |-> "null"], [tag |-> "invalid_utf8"], [tag |-> "malformed"]}
        \cup {[tag |-> "json", value |-> v] : v \in values}

\* CStr::to_str followed by T::from_json on a non-null argument
from_json(arg) == IF arg.tag = "json" THEN Some(arg.value) ELSE None

\* ActivityType::from_int
from_int(value) ==
    IF value = 0 THEN Some("Run")
    ELSE IF value = 1 THEN Some("Walk")
    ELSE IF value = 2 THEN Some("Cycle")
    ELSE IF value = 3 THEN Some("RollerSkate")
    ELSE None

\* activities handed to the personal-best calls: 1 km in 2 ms and 5 km in 1 ms
CallActivities ==
    {ActivityNew("a2", "Run", <<Point(0, 0), Point(Meters(1000), 2)>>, 0),
     ActivityNew("a2", "Run", <<Point(0, 0), Point(Meters(5000), 1)>>, 0)}

\* registries handed to the personal-best calls
CallRegistries ==
    {<<>>,
     <<PersonalBestNew("Run", Meters(1000), 1, "a1", 0)>>,
     <<PersonalBestNew("Walk", Meters(1000), 0, "a1", 0), PersonalBestNew("Run", Meters(5000), 1, "a1", 0)>>}

InitCalls ==
    /\ session = BansheeSessionNew(<<>>)
    /\ query = NoQuery
    /\ seg = NoSeg
    /\ pbs = <<>>
    /\ last = NoLast
    /\ arbitrary = FALSE
    /\ geo = NoGeo
    /\ ffi = [op |-> "calls", SESSION |-> NoneSession, installed |-> FALSE, call |-> "none"]

\* as BansheeInitSession, dropping the installed session when the record does not parse
BansheeInitSessionResetting ==
    \E json \in JsonArgs(FfiTracks \cup {<<>>}) :
        /\ UNCHANGED <<session, query, seg, pbs, last, arbitrary, geo>>
        /\ ffi' = IF json.tag \in {"null", "invalid_utf8"}
               THEN [op |-> "calls", SESSION |-> ffi.SESSION, installed |-> ffi.installed,
                     call |-> "banshee_init_session", json |-> json, ret |-> -1]
               ELSE IF ~from_json(json).found
               THEN [op |-> "calls", SESSION |-> NoneSession, installed |-> ffi.installed,
                     call |-> "banshee_init_session", json |-> json, ret |-> -2]
               ELSE [op |-> "calls", SESSION |-> SomeSession(BansheeSessionNew(from_json(json).value)),
                     installed |-> TRUE,
                     call |-> "banshee_init_session", json |-> json, ret |-> 0]

\* banshee_init_session(json); the value of a run record is its coordinates
BansheeInitSession ==
    \E json \in JsonArgs(FfiTracks \cup {<<>>}) :
        /\ UNCHANGED <<session, query, seg, pbs, last, arbitrary, geo>>
        /\ ffi' = IF json.tag \in {"null", "invalid_utf8"}
               THEN [op |-> "calls", SESSION |-> ffi.SESSION, installed |-> ffi.installed,
                     call |-> "banshee_init_session", json |-> json, ret |-> -1]
               ELSE IF ~from_json(json).found
               THEN [op |-> "calls", SESSION |-> ffi.SESSION, installed |-> ffi.installed,
                     call |-> "banshee_init_session", json |-> json, ret |-> -2]
               ELSE [op |-> "calls", SESSION |-> SomeSession(BansheeSessionNew(from_json(json).value)),
                     installed |-> TRUE,
                     call |-> "banshee_init_session", json |-> json, ret |-> 0]

\* as BansheeClearSession, leaving the guarded value as it is
BansheeClearSessionKeeping ==
    /\ UNCHANGED <<session, query, seg, pbs, last, arbitrary, geo>>
    /\ ffi' = [op |-> "calls", SESSION |-> ffi.SESSION, installed |-> FALSE, call |-> "banshee_clear_session"]

\* banshee_clear_session()
BansheeClearSession ==
    /\ UNCHANGED <<session, query, seg, pbs, last, arbitrary, geo>>
    /\ ffi' = [op |-> "calls", SESSION |-> NoneSession, installed |-> FALSE, call |-> "banshee_clear_session"]

\* banshee_is_behind(lat, lon, elapsed_ms)
BansheeIsBehind ==
    \E lat \in {0, 2}, elapsed_ms \in FfiElapsed :
        /\ UNCHANGED <<session, query, seg, pbs, last, arbitrary, geo>>
        /\ ffi' = [op |-> "calls", SESSION |-> ffi.SESSION, installed |-> ffi.installed,
                call |-> "banshee_is_behind", lat |-> lat, elapsed_ms |-> elapsed_ms,
                ret |-> IF ffi.SESSION.some
                        THEN IF is_behind(ffi.SESSION, Point(lat, elapsed_ms), elapsed_ms) THEN 1 ELSE 0
                        ELSE -1]

\* banshee_get_pacing_status(lat, lon, elapsed_ms)
BansheeGetPacingStatus ==
    \E lat \in {0, 2}, elapsed_ms \in FfiElapsed :
        /\ UNCHANGED <<session, query, seg, pbs, last, arbitrary, geo>>
        /\ ffi' = [op |-> "calls", SESSION |-> ffi.SESSION, installed |-> ffi.installed,
                call |-> "banshee_get_pacing_status", lat |-> lat, elapsed_ms |-> elapsed_ms,
                ret |-> IF ffi.SESSION.some
                        THEN StatusCode(get_pacing_status(ffi.SESSION, Point(lat, elapsed_ms), elapsed_ms))
                        ELSE -1]

\* banshee_update_pbs(existing_pbs_json, activity_json): the updated registry
BansheeUpdatePbs ==
    \E existing_pbs_json \in JsonArgs(CallRegistries), activity_json \in JsonArgs(CallActivities) :
        /\ UNCHANGED <<session, query, seg, pbs, last, arbitrary, geo>>
        /\ ffi' = [op |-> "calls", SESSION |-> ffi.SESSION, installed |-> ffi.installed,
                call |-> "banshee_update_pbs",
                existing_pbs_json |-> existing_pbs_json, activity_json |-> activity_json,
                ret |-> IF activity_json.tag = "null" THEN None
                        ELSE IF existing_pbs_json.tag = "invalid_utf8" THEN None
                        ELSE LET existing_pbs == IF existing_pbs_json.tag = "null" THEN <<>>
                                                 ELSE IF from_json(existing_pbs_json).found
                                                 THEN from_json(existing_pbs_json).value
                                                 ELSE <<>>
                             IN  IF ~from_json(activity_json).found THEN None
                                 ELSE Some(update_pbs(existing_pbs, from_json(activity_json).value).new_pbs)]

\* banshee_get_new_pbs(existing_pbs_json, activity_json): the records achieved
BansheeGetNewPbs ==
    \E existing_pbs_json \in JsonArgs(CallRegistries), activity_json \in JsonArgs(CallActivities) :
        /\ UNCHANGED <<session, query, seg, pbs, last, arbitrary, geo>>
        /\ ffi' = [op |-> "calls", SESSION |-> ffi.SESSION, installed |-> ffi.installed,
                call |-> "banshee_get_new_pbs",
                existing_pbs_json |-> existing_pbs_json, activity_json |-> activity_json,
                ret |-> IF activity_json.tag = "null" THEN None
                        ELSE IF existing_pbs_json.tag = "invalid_utf8" THEN None
                        ELSE LET existing_pbs == IF existing_pbs_json.tag = "null" THEN <<>>
                                                 ELSE IF from_json(existing_pbs_json).found
                                                 THEN from_json(existing_pbs_json).value
                                                 ELSE <<>>
                             IN  IF ~from_json(activity_json).found THEN None
                                 ELSE Some(update_pbs(existing_pbs, from_json(activity_json).value).achieved_pbs)]

\* banshee_get_pbs_for_type(pbs_json, activity_type)
BansheeGetPbsForType ==
    \E pbs_json \in JsonArgs(CallRegistries), activity_type \in 0 .. 4 :
        /\ UNCHANGED <<session, query, seg, pbs, last, arbitrary, geo>>
        /\ ffi' = [op |-> "calls", SESSION |-> ffi.SESSION, installed |-> ffi.installed,
                call |-> "banshee_get_pbs_for_type",
                pbs_json |-> pbs_json, activity_type |-> activity_type,
                ret |-> IF ~from_json(pbs_json).found \/ ~from_int(activity_type).found THEN None
                        ELSE Some(SelectSeq(from_json(pbs_json).value,
                                      LAMBDA pb : pb.activity_type = from_int(activity_type).value))]

\* banshee_get_activity_summary(activity_json): the activity without its coordinates
BansheeGetActivitySummary ==
    \E activity_json \in JsonArgs(CallActivities) :
        /\ UNCHANGED <<session, query, seg, pbs, last, arbitrary, geo>>
        /\ ffi' = [op |-> "calls", SESSION |-> ffi.SESSION, installed |-> ffi.installed,
                call |-> "banshee_get_activity_summary", activity_json |-> activity_json,
                ret |-> IF ~from_json(activity_json).found THEN None
                        ELSE LET activity == from_json(activity_json).value
                             IN  Some([id |-> activity.id,
                                       activity_type |-> activity.activity_type,
                                       total_distance_meters |-> activity.total_distance_meters,
                                       recorded_at |-> activity.recorded_at])]

NextCalls ==
    \/ BansheeInitSession
    \/ BansheeClearSession
    \/ BansheeIsBehind
    \/ BansheeGetPacingStatus
    \/ BansheeUpdatePbs
    \/ BansheeGetNewPbs
    \/ BansheeGetPbsForType
    \/ BansheeGetActivitySummary

SpecCalls == InitCalls /\ [][NextCalls]_vars

\* the serialized arguments of the last call
CallJsons ==
    IF ffi.call = "banshee_init_session" THEN <<ffi.json>>
    ELSE IF ffi.call \in {"banshee_update_pbs", "banshee_get_new_pbs"} THEN <<ffi.existing_pbs_json, ffi.activity_json>>
    ELSE IF ffi.call = "banshee_get_pbs_for_type" THEN <<ffi.pbs_json>>
    ELSE IF ffi.call = "banshee_get_activity_summary" THEN <<ffi.activity_json>>
    ELSE <<>>

\* C22: a foreign call handed a serialized input that cannot be decoded (bytes that
\* are not UTF-8, or text that does not parse) reports a failure, a negative code or
\* a null pointer, and computes no result.
C22_UndecodableInputSurfaces ==
    (ffi.op = "calls" /\ \E i \in 1 .. Len(CallJsons) : CallJsons[i].tag \in {"invalid_utf8", "malformed"}) =>
        IF ffi.call = "banshee_init_session" THEN ffi.ret < 0 ELSE ffi.ret = None

\* C23: over any sequence of init, clear and query calls, banshee_is_behind and
\* banshee_get_pacing_status return -1 exactly when no session is installed (no init
\* has returned 0 since the start or since the last clear), and otherwise a value in
\* {0, 1}, respectively {0, 1, 2}.
C23_MinusOneIffNoSession ==
    (ffi.op = "calls" /\ ffi.call \in {"banshee_is_behind", "banshee_get_pacing_status"}) =>
        /\ ffi.ret = -1 <=> ~ffi.installed
        /\ ffi.installed =>
               ffi.ret \in (IF ffi.call = "banshee_is_behind" THEN {0, 1} ELSE {0, 1, 2})

\* a status query answered Behind against an installed session
C23_Witness ==
    /\ ffi.op = "calls"
    /\ ffi.call = "banshee_get_pacing_status"
    /\ ffi.installed
    /\ ffi.ret = 1

(***************************************************************************)
(* find_best_segment_time step by step: one step per test of the while     *)
(* loop, so that the two window pointers can be followed.  seg.start_idx   *)
(* and seg.end_idx are the code's 0-based indices; seg.increments counts   *)
(* the executions of `end_idx += 1`.                                       *)
(***************************************************************************)
InitSearch ==
    /\ session = BansheeSessionNew(<<>>)
    /\ query = NoQuery
    /\ seg \in {[op |-> "search", pc |-> "entry", points |-> points,
                 cumulative |-> build_cumulative_distances(points),
                 target_distance_m |-> target,
                 start_idx |-> 0, end_idx |-> 0, increments |-> 0, best_segment |-> None]
                    : points \in Tracks, target \in 1 .. MaxTarget}
    /\ pbs = <<>>
    /\ last = NoLast
    /\ arbitrary = FALSE
    /\ ffi = NoFfi
    /\ geo = NoGeo

\* the two early returns, then `for start_idx in 0..points.len()`
SearchEnter ==
    /\ seg.pc = "entry"
    /\ seg' = [seg EXCEPT !.pc = IF \/ Len(seg.points) < 2
                                    \/ seg.cumulative[Len(seg.cumulative)] < seg.target_distance_m
                                 THEN "done" ELSE "while"]
    /\ UNCHANGED <<session, query, pbs, last, arbitrary, ffi, geo>>

\* the condition of the while loop for the current start_idx
WhileCondition ==
    /\ seg.end_idx < Len(seg.points)
    /\ seg.cumulative[seg.end_idx + 1] - seg.cumulative[seg.start_idx + 1] < seg.target_distance_m

\* end_idx += 1
SearchAdvanceEnd ==
    /\ seg.pc = "while"
    /\ WhileCondition
    /\ seg' = [seg EXCEPT !.end_idx = seg.end_idx + 1, !.increments = seg.increments + 1]
    /\ UNCHANGED <<session, query, pbs, last, arbitrary, ffi, geo>>

\* if end_idx >= points.len() { break; }
SearchBreak ==
    /\ seg.pc = "while"
    /\ ~WhileCondition
    /\ seg.end_idx >= Len(seg.points)
    /\ seg' = [seg EXCEPT !.pc = "done"]
    /\ UNCHANGED <<session, query, pbs, last, arbitrary, ffi, geo>>

\* the best segment after the window from start_idx to end_idx has been evaluated
BestAfterWindow ==
    LET segment_time == interpolate_time_at_distance(seg.points, seg.cumulative, seg.start_idx,
                            seg.cumulative[seg.start_idx + 1] + seg.target_distance_m)
        elapsed == SaturatingSub(segment_time.value, seg.points[seg.start_idx + 1].timestamp_ms)
        is_better == IF seg.best_segment.found THEN elapsed < seg.best_segment.value.time_ms ELSE TRUE
    IN  IF segment_time.found /\ is_better
        THEN Some([distance_meters |-> seg.target_distance_m, time_ms |-> elapsed,
                   start_idx |-> seg.start_idx, end_idx |-> seg.end_idx])
        ELSE seg.best_segment

\* as SearchEvaluate, starting the next window's end at its start
SearchEvaluateRestarting ==
    /\ seg.pc = "while"
    /\ ~WhileCondition
    /\ seg.end_idx < Len(seg.points)
    /\ seg' = [seg EXCEPT !.best_segment = BestAfterWindow,
                          !.start_idx = seg.start_idx + 1,
                          !.end_idx = seg.start_idx + 1,
                          !.pc = IF seg.start_idx + 1 >= Len(seg.points) THEN "done" ELSE "while"]
    /\ UNCHANGED <<session, query, pbs, last, arbitrary, ffi, geo>>

\* the window is evaluated and the for loop moves to the next start_idx
SearchEvaluate ==
    /\ seg.pc = "while"
    /\ ~WhileCondition
    /\ seg.end_idx < Len(seg.points)
    /\ seg' = [seg EXCEPT !.best_segment = BestAfterWindow,
                          !.start_idx = seg.start_idx + 1,
                          !.pc = IF seg.start_idx + 1 >= Len(seg.points) THEN "done" ELSE "while"]
    /\ UNCHANGED <<session, query, pbs, last, arbitrary, ffi, geo>>

NextSearch == SearchEnter \/ SearchAdvanceEnd \/ SearchBreak \/ SearchEvaluate

SpecSearch == InitSearch /\ [][NextSearch]_vars

\* the search has returned what find_best_segment_time returns
SearchAgreesWithFunction ==
    (seg.op = "search" /\ seg.pc = "done") =>
        seg.best_segment = find_best_segment_time(seg.points, seg.cumulative, seg.target_distance_m)

\* C24: in find_best_segment_time neither window pointer ever moves backward, every
\* step moves exactly one of them forward by one, the end index is not smaller than
\* the start index when a window is evaluated and never exceeds the number of
\* points, and it is incremented at most len(points) times, so the search ends
\* after at most 2 * len(points) steps.
C24_WindowPointersMonotonic ==
    [][seg.op = "search" =>
          /\ seg'.start_idx >= seg.start_idx
          /\ seg'.end_idx >= seg.end_idx
          /\ seg'.end_idx <= Len(seg.points)
          /\ seg'.increments <= Len(seg.points)
          /\ seg'.increments = seg'.end_idx
          /\ seg'.start_idx > seg.start_idx => seg.end_idx >= seg.start_idx
          /\ seg.pc = "while" =>
                 \/ seg'.pc = "done" /\ (seg'.start_idx = Len(seg.points) \/ seg'.end_idx = Len(seg.points))
                 \/ seg'.start_idx + seg'.end_idx = seg.start_idx + seg.end_idx + 1]_vars

\* a search over three points in which the end index was advanced for the first
\* start index and again for a later one
C24_Witness ==
    /\ seg.op = "search"
    /\ seg.pc = "while"
    /\ Len(seg.points) = 3
    /\ seg.start_idx = 1
    /\ seg.end_idx = 2
    /\ seg.increments = 2
    /\ seg.cumulative[2] >= seg.target_distance_m

(***************************************************************************)
(* C26: a banshee_init_session call that fails (return code -1 for a null  *)
(* or non-UTF-8 pointer, -2 for a run record that does not parse) leaves   *)
(* the session guarded by SESSION exactly as it was before the call, so    *)
(* that later queries are answered against the same ghost track.           *)
(***************************************************************************)
C26_FailedInitKeepsSession ==
    [][(/\ ffi'.call = "banshee_init_session"
        /\ ffi'.ret \in {-1, -2})
            => /\ ffi'.SESSION = ffi.SESSION
               /\ ffi'.installed = ffi.installed]_vars

\* an unparseable record arrived while a session with a ghost track was installed
C26_Witness ==
    /\ ffi.op = "calls"
    /\ ffi.call = "banshee_init_session"
    /\ ffi.ret = -2
    /\ ffi.SESSION.some
    /\ Len(ffi.SESSION.best_run_coords) >= 2

(***************************************************************************)
(* The run API over the process-wide database (rust/src/api/run_api.rs,    *)
(* rust/src/db/mod.rs).  ffi.DATABASE is the OnceLock, ffi.disk the SQLite *)
(* files by path, ffi.pc/ffi.run the position and the local `run` of each  *)
(* thread inside add_point_to_run.  Every Database method holds the        *)
(* connection mutex from its first to its last statement, so a method is   *)
(* one step; add_point_to_run calls two of them and is two steps.          *)
(***************************************************************************)
NumWriters == 2

MaxRuns == 1

Writers == 1 .. NumWriters

RunIds == 1 .. MaxRuns

DbPaths == {"a.db", "b.db", "/missing/c.db"}

\* Connection::open fails on a path whose directory does not exist
Openable(path) == path # "/missing/c.db"

NotInitialized == "Database not initialized"

AlreadyInitialized == "Database already initialized"

OpenFailed == "unable to open database file"

RunNotFound == "Run not found"

\* DateTime::to_rfc3339: seconds and the fraction of a second are written apart
to_rfc3339(timestamp) == [secs |-> timestamp \div 1000, millis |-> timestamp % 1000]

parse_from_rfc3339(text) == text.secs * 1000 + text.millis

RECURSIVE TotalDistanceSum(_, _)
\* points.windows(2).map(haversine_distance_points).sum(), over the first n windows
TotalDistanceSum(points, n) ==
    IF n = 0 THEN 0
    ELSE TotalDistanceSum(points, n - 1) + haversine_distance_points(points[n], points[n + 1])

\* geo::total_distance
total_distance(points) ==
    IF Len(points) < 2 THEN 0 ELSE TotalDistanceSum(points, Len(points) - 1)

NoRow == [exists |-> FALSE, distance_meters |-> 0, duration_ms |-> 0, gps_points |-> <<>>]

NoFile == [exists |-> FALSE, runs |-> [id \in RunIds |-> NoRow]]

\* Run::new(), with the id standing for the fresh UUID
RunNew(id) == [id |-> id, points |-> <<>>, distance_meters |-> 0, duration_ms |-> 0]

\* Database::save_run: replace the row, delete the run's points, insert all points
DbSaveRun(file, run) ==
    [file EXCEPT !.runs[run.id] =
        [exists |-> TRUE, distance_meters |-> run.distance_meters, duration_ms |-> run.duration_ms,
         gps_points |-> [idx \in 1 .. Len(run.points) |->
                            [lat |-> run.points[idx].lat,
                             timestamp |-> to_rfc3339(run.points[idx].timestamp)]]]]

\* Database::get_run: the row, then its points ordered by point_index
DbGetRun(file, id) ==
    IF ~file.runs[id].exists THEN None
    ELSE Some([id |-> id,
               points |-> [idx \in 1 .. Len(file.runs[id].gps_points) |->
                              GpsPoint(file.runs[id].gps_points[idx].lat,
                                       parse_from_rfc3339(file.runs[id].gps_points[idx].timestamp))],
               distance_meters |-> file.runs[id].distance_meters,
               duration_ms |-> file.runs[id].duration_ms])

\* get_db()
get_db == ffi.DATABASE

Ok(value) == [ok |-> TRUE, err |-> "", value |-> value]

Err(message) == [ok |-> FALSE, err |-> message, value |-> 0]

\* the point thread t adds
AddedPoint(t) == GpsPoint(2 * t - 1, t)

\* the runs save_run is called with
RunDtos ==
    {[id |-> id, points |-> points, distance_meters |-> 7, duration_ms |-> duration_ms]
        : id \in RunIds, points \in {<<>>, <<GpsPoint(0, 0), GpsPoint(2, 1500)>>}, duration_ms \in {0, 1500}}

InitDb ==
    /\ session = BansheeSessionNew(<<>>)
    /\ query = NoQuery
    /\ seg = NoSeg
    /\ pbs = <<>>
    /\ last = NoLast
    /\ arbitrary = FALSE
    /\ geo = NoGeo
    /\ ffi = [op |-> "db", DATABASE |-> None, disk |-> [path \in DbPaths |-> NoFile],
              pc |-> [t \in Writers |-> "idle"],
              run |-> [t \in Writers |-> RunNew(1)],
              call |-> "none", arg |-> "", ret |-> Ok(0)]

\* init_database(db_path): Database::open, then DATABASE.set
InitDatabase ==
    \E db_path \in DbPaths :
        /\ UNCHANGED <<session, query, seg, pbs, last, arbitrary, geo>>
        /\ ffi' = IF ~Openable(db_path)
               THEN [ffi EXCEPT !.call = "init_database", !.arg = db_path, !.ret = Err(OpenFailed)]
               ELSE IF ffi.DATABASE.found
               THEN [ffi EXCEPT !.call = "init_database", !.arg = db_path,
                                !.disk[db_path].exists = TRUE,
                                !.ret = Err(AlreadyInitialized)]
               ELSE [ffi EXCEPT !.call = "init_database", !.arg = db_path,
                                !.disk[db_path].exists = TRUE,
                                !.DATABASE = Some(db_path),
                                !.ret = Ok(0)]

\* create_run(); the id is a fresh UUID, one that no file holds
CreateRun ==
    \E id \in RunIds :
        /\ UNCHANGED <<session, query, seg, pbs, last, arbitrary, geo>>
        /\ \A path \in DbPaths : ~ffi.disk[path].runs[id].exists
        /\ ffi' = IF ~get_db.found
               THEN [ffi EXCEPT !.call = "create_run", !.arg = "", !.ret = Err(NotInitialized)]
               ELSE [ffi EXCEPT !.call = "create_run", !.arg = "",
                                !.disk[get_db.value] = DbSaveRun(@, RunNew(id)),
                                !.ret = Ok(id)]

\* save_run(run_dto): distance recalculated from the points
SaveRun ==
    \E run_dto \in RunDtos :
        /\ UNCHANGED <<session, query, seg, pbs, last, arbitrary, geo>>
        /\ ffi' = IF ~get_db.found
               THEN [ffi EXCEPT !.call = "save_run", !.arg = "", !.ret = Err(NotInitialized)]
               ELSE [ffi EXCEPT !.call = "save_run", !.arg = "",
                                !.disk[get_db.value] =
                                    DbSaveRun(@, [run_dto EXCEPT !.distance_meters = total_distance(run_dto.points)]),
                                !.ret = Ok(0)]

\* get_run(id); the value reported is the number of points of the run found
GetRun ==
    \E id \in RunIds :
        /\ UNCHANGED <<session, query, seg, pbs, last, arbitrary, geo>>
        /\ ffi' = IF ~get_db.found
               THEN [ffi EXCEPT !.call = "get_run", !.arg = "", !.ret = Err(NotInitialized)]
               ELSE [ffi EXCEPT !.call = "get_run", !.arg = "",
                                !.ret = IF DbGetRun(ffi.disk[get_db.value], id).found
                                        THEN Ok(Len(DbGetRun(ffi.disk[get_db.value], id).value.points))
                                        ELSE Ok(-1)]

\* add_point_to_run(run_id, point) up to `db.get_run(&run_id)`, for run 1
AddPointToRunGet ==
    \E t \in Writers :
        /\ UNCHANGED <<session, query, seg, pbs, last, arbitrary, geo>>
        /\ ffi.pc[t] = "idle"
        /\ ffi' = IF ~get_db.found
               THEN [ffi EXCEPT !.call = "add_point_to_run", !.arg = "", !.ret = Err(NotInitialized)]
               ELSE IF ~DbGetRun(ffi.disk[get_db.value], 1).found
               THEN [ffi EXCEPT !.call = "add_point_to_run", !.arg = "", !.ret = Err(RunNotFound)]
               ELSE [ffi EXCEPT !.pc[t] = "loaded",
                                !.run[t] = DbGetRun(ffi.disk[get_db.value], 1).value]

\* the rest of add_point_to_run: add_point, total_distance, duration, db.save_run
AddPointToRunSave ==
    \E t \in Writers :
        /\ UNCHANGED <<session, query, seg, pbs, last, arbitrary, geo>>
        /\ ffi.pc[t] = "loaded"
        /\ LET points == Append(ffi.run[t].points, AddedPoint(t))
               run == [ffi.run[t] EXCEPT !.points = points,
                                          !.distance_meters = total_distance(points),
                                          !.duration_ms = points[Len(points)].timestamp - points[1].timestamp]
           IN  ffi' = [ffi EXCEPT !.call = "add_point_to_run", !.arg = "",
                                  !.pc[t] = "done", !.run[t] = run,
                                  !.disk[get_db.value] = DbSaveRun(@, run),
                                  !.ret = Ok(run.distance_meters)]

NextDb ==
    \/ InitDatabase
    \/ CreateRun
    \/ SaveRun
    \/ GetRun
    \/ AddPointToRunGet
    \/ AddPointToRunSave

SpecDb == InitDb /\ [][NextDb]_vars

(***************************************************************************)
(* C25: the process-wide database is installed at most once.  The first    *)
(* successful init_database installs it; every later init_database call    *)
(* returns "Database already initialized" and leaves the installed         *)
(* database in place; every run operation invoked before a successful init *)
(* returns "Database not initialized" and changes nothing.                 *)
(***************************************************************************)
C25_DatabaseInstalledOnce ==
    [][/\ (ffi'.call = "init_database" /\ ~ffi.DATABASE.found /\ ffi'.ret.ok)
            => ffi'.DATABASE = Some(ffi'.arg)
       /\ (ffi'.call = "init_database" /\ ffi.DATABASE.found)
            => /\ ffi'.ret = Err(AlreadyInitialized)
               /\ ffi'.DATABASE = ffi.DATABASE
       /\ (ffi'.call \in {"create_run", "save_run", "get_run", "add_point_to_run"} /\ ~ffi.DATABASE.found)
            => /\ ffi'.ret = Err(NotInitialized)
               /\ ffi'.DATABASE = ffi.DATABASE
               /\ ffi'.disk = ffi.disk]_vars

(***************************************************************************)
(* Concurrent add_point_to_run calls on run 1 and nothing else: the        *)
(* database is installed and holds the run, as save_run left it.           *)
(***************************************************************************)
StoredPointSeqs == UNION {[1 .. n -> {GpsPoint(0, 0), GpsPoint(2, 1500)}] : n \in 0 .. 2}

InitAddPoint ==
    /\ session = BansheeSessionNew(<<>>)
    /\ query = NoQuery
    /\ seg = NoSeg
    /\ pbs = <<>>
    /\ last = NoLast
    /\ arbitrary = FALSE
    /\ geo = NoGeo
    /\ \E points \in StoredPointSeqs, duration_ms \in {0, 1500} :
          ffi = [op |-> "db", DATABASE |-> Some("a.db"),
                 disk |-> [path \in DbPaths |->
                              IF path = "a.db"
                              THEN DbSaveRun([exists |-> TRUE, runs |-> NoFile.runs],
                                             [id |-> 1, points |-> points,
                                              distance_meters |-> total_distance(points),
                                              duration_ms |-> duration_ms])
                              ELSE NoFile],
                 pc |-> [t \in Writers |-> "idle"],
                 run |-> [t \in Writers |-> RunNew(1)],
                 call |-> "none", arg |-> "", ret |-> Ok(0)]

NextAddPoint ==
    \/ AddPointToRunGet
    \/ AddPointToRunSave

SpecAddPoint == InitAddPoint /\ [][NextAddPoint]_vars

\* the run as get_run returns it from the installed database
StoredRun == DbGetRun(ffi.disk[get_db.value], 1).value

Occurrences(points, point) == Cardinality({idx \in 1 .. Len(points) : points[idx] = point})

(***************************************************************************)
(* C27: after any interleaving of concurrent add_point_to_run calls on the *)
(* same run, the stored run holds the point of every call that returned    *)
(* exactly once, and its stored distance is the total distance of the      *)
(* stored points.                                                          *)
(***************************************************************************)
C27_NoPointLost ==
    ffi.op = "db" =>
        /\ \A t \in Writers :
              ffi.pc[t] = "done" => Occurrences(StoredRun.points, AddedPoint(t)) = 1
        /\ StoredRun.distance_meters = total_distance(StoredRun.points)

StrictlyIncreasing(points) ==
    \A i \in 1 .. Len(points) - 1 : points[i].timestamp_ms < points[i + 1].timestamp_ms

DistinctPositions(points) ==
    \A i, j \in 1 .. Len(points) : i # j => points[i].lat # points[j].lat

\* the query asks about a point of the ghost track at that point's own timestamp
OnSchedule ==
    \E i \in 1 .. Len(session.best_run_coords) :
        /\ session.best_run_coords[i].lat = query.lat
        /\ session.best_run_coords[i].timestamp_ms = query.elapsed_ms

(***************************************************************************)
(* C28: a runner exactly on the ghost's schedule is never reported Behind. *)
(* For a ghost track with strictly increasing timestamps and pairwise      *)
(* distinct positions, get_pacing_status(position of point i, timestamp of *)
(* point i) returns Ahead for every track point i.                         *)
(***************************************************************************)
C28_OnScheduleNeverBehind ==
    (/\ query.op = "get_pacing_status"
     /\ StrictlyIncreasing(session.best_run_coords)
     /\ DistinctPositions(session.best_run_coords)
     /\ OnSchedule)
        => query.ret = "Ahead"

\* find_best_segment_time on the track of the last call, for another target
BestTimeFor(target_distance_m) ==
    find_best_segment_time(seg.points, seg.cumulative, target_distance_m)

(***************************************************************************)
(* C29: for a track with non-decreasing timestamps the best segment time   *)
(* is monotone in the target distance.  For targets 0 < D1 <= D2 <= total  *)
(* distance both searches find a segment, the time found for D1 is not     *)
(* larger than the time found for D2, and neither exceeds the time between *)
(* the first and the last point.                                           *)
(***************************************************************************)
C29_BestTimeMonotoneInTarget ==
    (/\ seg.op = "find_best_segment_time"
     /\ Len(seg.points) >= 2
     /\ NonDecreasing(seg.points)
     /\ seg.target_distance_m <= seg.cumulative[Len(seg.cumulative)])
        => /\ seg.ret.found
           /\ seg.ret.value.time_ms
                <= seg.points[Len(seg.points)].timestamp_ms - seg.points[1].timestamp_ms
           /\ \A D1 \in 1 .. seg.target_distance_m :
                 /\ BestTimeFor(D1).found
                 /\ BestTimeFor(D1).value.time_ms <= seg.ret.value.time_ms

\* a three-point track on which a shorter target is strictly faster than the longer
\* one, and the longer one takes less than the whole track
C29_Witness ==
    /\ seg.op = "find_best_segment_time"
    /\ Len(seg.points) = 3
    /\ NonDecreasing(seg.points)
    /\ seg.target_distance_m = 2
    /\ seg.target_distance_m < seg.cumulative[Len(seg.cumulative)]
    /\ seg.ret.found
    /\ BestTimeFor(1).found
    /\ BestTimeFor(1).value.time_ms < seg.ret.value.time_ms
    /\ seg.ret.value.time_ms < seg.points[3].timestamp_ms - seg.points[1].timestamp_ms

RECURSIVE BracketLoopStrict(_, _, _)
\* as BracketLoop, stopping at the first point later than elapsed_ms
BracketLoopStrict(best_run_coords, elapsed_ms, i) ==
    IF i > Len(best_run_coords) THEN 0
    ELSE IF best_run_coords[i].timestamp_ms > elapsed_ms THEN i
    ELSE BracketLoopStrict(best_run_coords, elapsed_ms, i + 1)

RECURSIVE BracketLoop(_, _, _)
\* the point at which the for loop of get_banshee_distance_at_time returns: the
\* 1-based index of the first point with timestamp_ms >= elapsed_ms, 0 when the loop
\* runs to its end
BracketLoop(best_run_coords, elapsed_ms, i) ==
    IF i > Len(best_run_coords) THEN 0
    ELSE IF best_run_coords[i].timestamp_ms >= elapsed_ms THEN i
    ELSE BracketLoop(best_run_coords, elapsed_ms, i + 1)

\* get_banshee_distance_at_time from the returning iteration: cumulative_distance
\* is the length of the track up to prev
DistanceAtBracket(s, elapsed_ms) ==
    LET i == BracketLoop(s.best_run_coords, elapsed_ms, 1)
        prev == s.best_run_coords[i - 1]
        curr == s.best_run_coords[i]
    IN  IF s.best_run_coords = <<>> THEN Whole(0)
        ELSE IF i = 0 THEN Whole(s.best_run_total_distance)
        ELSE IF i = 1 THEN Whole(0)
        ELSE IF curr.timestamp_ms > prev.timestamp_ms
        THEN [num |-> SumWindows(s.best_run_coords, i - 2) * (curr.timestamp_ms - prev.timestamp_ms)
                        + distance_to(prev, curr) * (elapsed_ms - prev.timestamp_ms),
              den |-> curr.timestamp_ms - prev.timestamp_ms]
        ELSE Whole(SumWindows(s.best_run_coords, i - 2))

\* the returning iteration is the one the loop of the function model stops at
BracketAgreesWithFunction ==
    query.op \in {"get_pacing_status", "is_behind"} =>
        DistanceAtBracket(session, query.elapsed_ms)
            = get_banshee_distance_at_time(session, query.elapsed_ms)

(***************************************************************************)
(* C30: for every ghost track (timestamps in any order, duplicates         *)
(* included) and every elapsed_ms, the unsigned subtraction                *)
(* elapsed_ms - prev.timestamp_ms of get_banshee_distance_at_time does not *)
(* underflow and the interpolation uses a time ratio in (0, 1]; when the   *)
(* timestamps are non-decreasing the result lies between 0 and the cached  *)
(* total distance.                                                         *)
(***************************************************************************)
C30_RatioInUnitInterval ==
    query.op \in {"get_pacing_status", "is_behind"} =>
        LET i == BracketLoop(session.best_run_coords, query.elapsed_ms, 1)
            prev == session.best_run_coords[i - 1]
            curr == session.best_run_coords[i]
            result == get_banshee_distance_at_time(session, query.elapsed_ms)
        IN  /\ i > 1 =>
                /\ query.elapsed_ms >= prev.timestamp_ms
                /\ curr.timestamp_ms > prev.timestamp_ms
                /\ 0 < query.elapsed_ms - prev.timestamp_ms
                /\ query.elapsed_ms - prev.timestamp_ms <= curr.timestamp_ms - prev.timestamp_ms
            /\ NonDecreasing(session.best_run_coords) =>
                /\ result.den > 0
                /\ 0 <= result.num
                /\ result.num <= session.best_run_total_distance * result.den

\* a track with timestamps out of order, interpolated strictly inside its second segment
C30_Witness ==
    /\ query.op = "get_pacing_status"
    /\ Len(session.best_run_coords) = 3
    /\ ~NonDecreasing(session.best_run_coords)
    /\ BracketLoop(session.best_run_coords, query.elapsed_ms, 1) = 2
    /\ query.elapsed_ms < session.best_run_coords[2].timestamp_ms
    /\ session.best_run_coords[1].lat # session.best_run_coords[2].lat

====
